---- MODULE Spec2Model ----
(***************************************************************************)
(* fetch-builder: request handles (FetcherResponse over a PluginManager),  *)
(* the Loader cache, the cacheable Fetcher and the Fetcher with            *)
(* preProcess, each as a state machine.  The variable `unit` names the     *)
(* object under analysis; the objects share no state, so every behaviour   *)
(* exercises one of them.                                                  *)
(***************************************************************************)
EXTENDS Integers, FiniteSets, Sequences, TLC

\* ------------------------------------------------------------------ bounds

\* Dispatch chains one handle may start in a behaviour.
MaxDispatch == 2

\* Dispatches a Loader or a cacheable Fetcher may start in a behaviour.
MaxLoads == 3

\* Frames the call stack holds before the engine throws a RangeError.
StackLimit == 3

\* preProcess runs counted for one fetch (the count saturates there).
MaxPreRuns == 3

\* Handles one Fetcher creates in a behaviour.
MaxHandles == 3

\* The longest url template serialized.
MaxTemplate == 4

\* The most fetchFn calls of the Fetchers of one Repository.
MaxRepoDispatch == 2

\* ------------------------------------------------------------- value sets

\* The objects the behaviours of Spec exercise; the others have a
\* specification of their own.
Units == {"handle", "loader", "cacheable", "preprocess", "plugins",
          "fetcher", "merge", "options"}

\* RequestType, plus the `response` getter, which leaves the type alone.
RequestTypes == {"text", "json"}

Accessors == RequestTypes \cup {"response"}

\* Bodies a dispatch call may pass; "none" is the absent argument.
Bodies == {"none", "b1"}

\* Response statuses the transport may deliver.
Statuses == {200, 204, 304, 404}

DispatchIds == 1..MaxDispatch

\* TimeoutError.statusCode
TimeoutStatusCode == 408

\* What a stage supplied by the caller may raise.
StageErrors == {"Error", "HttpError"}

NoErr == [cls |-> "none", parent |-> "none", wraps |-> 0, status |-> 0]

NoChain ==
    [phase |-> "none", err |-> NoErr, raised |-> NoErr, failedIn |-> "none",
     fetchCalls |-> 0, resp |-> 0, data |-> "none"]

\* A network operation and the timer of timeoutPromise that races it.
NoNet == [st |-> "none", signal |-> 0, timer |-> "none"]

VARIABLES
    unit,      \* the object the behaviour exercises
    honour,    \* whether the transport reads options.abort
    cache,     \* FetcherResponse.cache: 0 (undefined) or the chain it holds
    ac,        \* FetcherResponse.ac: the current AbortController
    aborted,   \* the AbortControllers whose abort() was called
    optAbort,  \* options.abort: the signal stored in the shared options
    optBody,   \* options.body
    type,      \* FetcherResponse.type
    chain,     \* the promise chains built by result(), by id
    net,       \* the network operation each chain issued
    fresh,     \* chains started since the last reset()/abort()
    hrets,     \* chains returned by result() since the last reset()/abort()
    hlast,     \* the last API call on the handle and what it met
    lFetcher,  \* Loader._fetcher is set
    lResult,   \* Loader._result: 0 (null) or the promise it holds
    lProm,     \* the promises Loader.fetch built, by id
    lFresh,    \* dispatches started since the last reset or failure
    lRets,     \* promises Loader.fetch returned since then
    lLast,     \* the last Loader operation and what it met
    cCacheable, \* Fetcher.cacheable
    cResult,   \* Fetcher._result: 0 (null) or the promise it holds
    cProm,     \* the promises Fetcher.fetch built, by id
    cDepth,    \* frames of fetch() on the stack (0: no call is running)
    cArg,      \* the argument of the fetch call that is running
    cFresh,    \* underlying fetch calls since the last reset or failure
    cLast,     \* the last Fetcher operation and its outcome
    pBase,     \* the Fetcher (with or without preProcess) fetch is called on
    pPc,       \* "idle", "pre" (a preProcess promise is pending) or "done"
    pArg,      \* the descriptor the pending preProcess was given
    pFirst,    \* the descriptor the first preProcess resolved with
    pPre,      \* preProcess runs of this fetch
    pCalls,    \* the calls of a fetch function this fetch issued
    mPlugins,  \* PluginManager.plugins: the caller's stages, then the defaults
    mStatus,   \* the status of the response the fetch stage delivers
    mPhase,    \* where the dispatch is: the stage kind running, or its end
    mIdx,      \* the stage of mPlugins the running promise chain is at
    mExtra,    \* the value of the option-mutation chain so far
    mResp,     \* the value of the fetch chain so far (0: undefined)
    mData,     \* the value of the decoding chain so far (0: undefined)
    mErr,      \* what the dispatch rejected with
    mCalls,    \* the stage methods invoked so far, in order, with their input
    mRunning,  \* the stage whose method was invoked and has not completed (0: none)
    rHandles,  \* the FetcherResponse objects Fetcher.request created
    rMap,      \* Fetcher.requestMap: key -> handle (0: no entry)
    rGiven,    \* key -> the handle a verb call returned, until it is destroyed
    rLast,     \* the last call on the Fetcher or on one of its handles
    gSupported, \* typeof Headers !== 'undefined'
    gSets,     \* the arguments of a mergeHeaders call
    gOut,      \* what the call returned (null: not called yet)
    oSrc,      \* a Fetcher (part_003): the value of each of its options
    oRec,      \* the rec of the copy call
    oCopy,     \* the Fetcher copy(rec) returned
    dSupported, \* typeof Headers !== 'undefined'
    dHeap,     \* the header objects that exist, by reference
    dA,        \* a Fetcher (index.js); its options.headers is a reference
    dB,        \* what a.copy(rec) gave: a Fetcher, or the error it threw
    dBefore,   \* the fields of a, headers included, before copy was called
    dRec,      \* the rec of the copy call
    sBase,     \* baseUrl of a Fetcher, a string of characters
    sTemplate, \* the url given to serializeParams / the url of a Fetcher
    sParams,   \* the params mapping: key -> value, if any
    sOut,      \* what the call gave: a string, or the error thrown
    qArg,      \* what the Repository constructor was given
    qLoaders,  \* Repository._loaders: key -> Loader (its Fetcher's rec, _result)
    qProm,     \* the promises of the fetchFn calls, in the order of the calls
    qLast,     \* the last call on the Repository, with the loaders before it
    eType,     \* extra.type of a responseData call of ExtractDataPlugin
    eStatus,   \* r.status
    eBody,     \* the body of the response r
    eOut       \* the call: the method of r it invoked, and what it gave

hvars ==
    <<honour, cache, ac, aborted, optAbort, optBody, type, chain, net, fresh,
      hrets, hlast>>

lvars == <<lFetcher, lResult, lProm, lFresh, lRets, lLast>>

cvars == <<cCacheable, cResult, cProm, cDepth, cArg, cFresh, cLast>>

pvars == <<pBase, pPc, pArg, pFirst, pPre, pCalls>>

mvars ==
    <<mPlugins, mStatus, mPhase, mIdx, mExtra, mResp, mData, mErr, mCalls,
      mRunning>>

rvars == <<rHandles, rMap, rGiven, rLast>>

gvars == <<gSupported, gSets, gOut>>

ovars == <<oSrc, oRec, oCopy>>

dvars == <<dSupported, dHeap, dA, dB, dBefore, dRec>>

svars == <<sBase, sTemplate, sParams, sOut>>

qvars == <<qArg, qLoaders, qProm, qLast>>

evars == <<eType, eStatus, eBody, eOut>>

vars ==
    <<unit, hvars, lvars, cvars, pvars, mvars, rvars, gvars, ovars, dvars,
      svars, qvars, evars>>

\* A step of the handle leaves the other objects alone, and so on.
HandleStep ==
    /\ unit = "handle"
    /\ UNCHANGED <<unit, lvars, cvars, pvars, mvars, rvars, gvars, ovars,
                 dvars, svars, qvars, evars>>

LoaderStep ==
    /\ unit = "loader"
    /\ UNCHANGED <<unit, hvars, cvars, pvars, mvars, rvars, gvars, ovars,
                 dvars, svars, qvars, evars>>

CacheableStep ==
    /\ unit = "cacheable"
    /\ UNCHANGED <<unit, hvars, lvars, pvars, mvars, rvars, gvars, ovars,
                 dvars, svars, qvars, evars>>

PreprocessStep ==
    /\ unit = "preprocess"
    /\ UNCHANGED <<unit, hvars, lvars, cvars, mvars, rvars, gvars, ovars,
                 dvars, svars, qvars, evars>>

PluginsStep ==
    /\ unit = "plugins"
    /\ UNCHANGED <<unit, hvars, lvars, cvars, pvars, rvars, gvars, ovars,
                 dvars, svars, qvars, evars>>

FetcherStep ==
    /\ unit = "fetcher"
    /\ UNCHANGED <<unit, hvars, lvars, cvars, pvars, mvars, gvars, ovars,
                 dvars, svars, qvars, evars>>

MergeStep ==
    /\ unit = "merge"
    /\ UNCHANGED <<unit, hvars, lvars, cvars, pvars, mvars, rvars, ovars,
                 dvars, svars, qvars, evars>>

OptionsStep ==
    /\ unit = "options"
    /\ UNCHANGED <<unit, hvars, lvars, cvars, pvars, mvars, rvars, gvars,
                 dvars, svars, qvars, evars>>

DescriptorStep ==
    /\ unit = "descriptor"
    /\ UNCHANGED <<unit, hvars, lvars, cvars, pvars, mvars, rvars, gvars,
                 ovars, svars, qvars, evars>>

SerializeStep ==
    /\ unit = "serialize"
    /\ UNCHANGED <<unit, hvars, lvars, cvars, pvars, mvars, rvars, gvars,
                 ovars, dvars, qvars, evars>>

RepositoryStep ==
    /\ unit = "repository"
    /\ UNCHANGED <<unit, hvars, lvars, cvars, pvars, mvars, rvars, gvars,
                 ovars, dvars, svars, evars>>

ExtractStep ==
    /\ unit = "extract"
    /\ UNCHANGED <<unit, hvars, lvars, cvars, pvars, mvars, rvars, gvars,
                 ovars, dvars, svars, qvars>>

\* ------------------------------------------------------ HttpError, catches

IsHttpError(e) == e.cls = "HttpError"

\* An error raised by a stage.
Raise(cls, status) ==
    [cls |-> cls, parent |-> "none", wraps |-> 0, status |-> status]

\* new HttpError({extra, parent, response}): status is parent.status || null
\* when a parent is given, else response.status || null, else null (0).
NewHttpError(parent, resp) ==
    [cls |-> "HttpError", parent |-> parent.cls, wraps |-> parent.wraps + 1,
     status |-> IF parent.cls # "none" THEN 0 ELSE resp]

\* A catch that wraps whatever reaches it.
CatchWrapAlways(e, resp) == NewHttpError(e, resp)

\* parent instanceof HttpError ? parent : new HttpError({extra, parent, ..})
Catch(e, resp) == IF IsHttpError(e) THEN e ELSE NewHttpError(e, resp)

\* The catch handlers an error raised in `stage` passes on its way out.
ThroughCatches(stage, e, resp) ==
    CASE stage = "decode" -> Catch(Catch(Catch(e, resp), 0), 0)
      [] stage = "fetch"  -> Catch(Catch(e, 0), 0)
      [] OTHER            -> Catch(e, 0)

\* --------------------------------------------------------- FetcherResponse

\* AbortController.abort(): with a transport that reads the signal, the
\* operations in flight under it are cancelled.
AbortOps(n, sig) ==
    [d \in DispatchIds |->
        IF honour /\ n[d].st = "inflight" /\ n[d].signal = sig
        THEN [n[d] EXCEPT !.st = "cancelled"]
        ELSE n[d]]

NextId == Cardinality({d \in DispatchIds : chain[d].phase # "none"}) + 1

CacheState(c) ==
    IF c = 0 THEN "idle"
    ELSE IF chain[c].phase = "resolved" THEN "resolved"
    ELSE IF chain[c].phase = "rejected" THEN "rejected"
    ELSE "pending"

\* The rest of result(body): the body stored in the shared options, the old
\* controller aborted, a new one made, its signal stored in options.abort,
\* and a new promise chain cached.
ResultNew(body) ==
    /\ NextId <= MaxDispatch
    /\ optBody' = IF body # "none" THEN body ELSE optBody
    /\ aborted' = aborted \cup {ac}
    /\ ac' = NextId
    /\ optAbort' = NextId
    /\ cache' = NextId
    /\ chain' = [chain EXCEPT ![NextId] = [NoChain EXCEPT !.phase = "updating"]]
    /\ net' = AbortOps(net, ac)
    /\ fresh' = fresh \cup {NextId}
    /\ hrets' = hrets \cup {NextId}

\* result() that ignores the cache.
ResultIgnoringCache(body) == ResultNew(body)

\* result(body): the cached promise, or a new chain.
Result(body) ==
    IF cache # 0
    THEN /\ hrets' = hrets \cup {cache}
         /\ UNCHANGED <<cache, ac, aborted, optAbort, optBody, chain, net, fresh>>
    ELSE ResultNew(body)

\* text(body), json(body), blob(body), formData(body), arrayBuffer(body) and
\* the `response` getter.
Dispatch(acc, body) ==
    /\ HandleStep
    /\ acc = "response" => body = "none"
    /\ type' = IF acc = "response" THEN type ELSE acc
    /\ Result(body)
    /\ hlast' = [op |-> "dispatch", ret |-> cache', met |-> CacheState(cache)]
    /\ UNCHANGED honour

\* reset()/abort() that leaves the cache in place.
ClearKeepCache(op) ==
    /\ aborted' = aborted \cup {ac}
    /\ net' = AbortOps(net, ac)
    /\ UNCHANGED cache

\* reset()/abort() that drops only a promise that has settled.
ClearWhenSettled(op) ==
    /\ aborted' = aborted \cup {ac}
    /\ net' = AbortOps(net, ac)
    /\ cache' = IF CacheState(cache) = "pending" THEN cache ELSE 0

\* this.ac.abort(); this.cache = undefined
Clear(op) ==
    /\ aborted' = aborted \cup {ac}
    /\ net' = AbortOps(net, ac)
    /\ cache' = 0

Reset ==
    /\ HandleStep
    /\ Clear("reset")
    /\ fresh' = {}
    /\ hrets' = {}
    /\ hlast' = [op |-> "reset", ret |-> 0, met |-> CacheState(cache)]
    /\ UNCHANGED <<honour, ac, optAbort, optBody, type, chain>>

Abort ==
    /\ HandleStep
    /\ Clear("abort")
    /\ fresh' = {}
    /\ hrets' = {}
    /\ hlast' = [op |-> "abort", ret |-> 0, met |-> CacheState(cache)]
    /\ UNCHANGED <<honour, ac, optAbort, optBody, type, chain>>

\* A rejection that also drops the chain from the cache.
RejectChainClearCache(ch, d, stage, e, resp) ==
    /\ chain' = [ch EXCEPT ![d].phase = "rejected", ![d].raised = e,
                           ![d].failedIn = stage,
                           ![d].err = ThroughCatches(stage, e, resp)]
    /\ cache' = IF cache = d THEN 0 ELSE cache

\* The promise of chain d (of the chains ch) rejects with what the catch
\* handlers leave of e; the handlers do not touch this.cache.
RejectChain(ch, d, stage, e, resp) ==
    /\ chain' = [ch EXCEPT ![d].phase = "rejected", ![d].raised = e,
                           ![d].failedIn = stage,
                           ![d].err = ThroughCatches(stage, e, resp)]
    /\ UNCHANGED cache

\* pm.updateOptions(this) rejects: a stage's updateOptions threw.
UpdateOptionsFail(d, cls) ==
    /\ HandleStep
    /\ chain[d].phase = "updating"
    /\ RejectChain(chain, d, "update", Raise(cls, 0), 0)
    /\ UNCHANGED <<honour, ac, aborted, optAbort, optBody, type, net,
                   fresh, hrets, hlast>>

\* pm.updateOptions(this) resolves and pm.fetch(extra) runs FetchPlugin.fetch:
\* fetch(extra.url, extra.options) with the options as they are now, raced
\* by timeoutPromise against a timer of extra.timeout (never 0 on a handle).
UpdateOptionsDone(d) ==
    /\ HandleStep
    /\ chain[d].phase = "updating"
    /\ chain' = [chain EXCEPT ![d].phase = "fetching", ![d].fetchCalls = @ + 1]
    /\ net' = [net EXCEPT ![d] =
                 [st |-> IF honour /\ optAbort \in aborted
                         THEN "cancelled" ELSE "inflight",
                  signal |-> optAbort, timer |-> "armed"]]
    /\ UNCHANGED <<honour, cache, ac, aborted, optAbort, optBody, type,
                   fresh, hrets, hlast>>

\* pm.updateOptions(this) resolves and a fetch stage ahead of FetchPlugin
\* throws: pm.fetch was called, no network operation was started.
FetchStageFail(d, cls) ==
    /\ HandleStep
    /\ chain[d].phase = "updating"
    /\ RejectChain([chain EXCEPT ![d].fetchCalls = @ + 1], d, "fetch",
                   Raise(cls, 0), 0)
    /\ UNCHANGED <<honour, ac, aborted, optAbort, optBody, type,
                   net, fresh, hrets, hlast>>

\* A response that settles the promise of the chain whatever state it is in.
NetResponseOverwrites(d, s) ==
    /\ HandleStep
    /\ net[d].st = "inflight"
    /\ net' = [net EXCEPT ![d].st = "done"]
    /\ chain' = [chain EXCEPT ![d].phase = "decoding", ![d].resp = s,
                              ![d].err = NoErr, ![d].raised = NoErr,
                              ![d].failedIn = "none"]
    /\ UNCHANGED <<honour, cache, ac, aborted, optAbort, optBody, type,
                   fresh, hrets, hlast>>

\* The network operation delivers a response; a chain that no longer waits
\* for it (timed out) ignores it.
NetResponse(d, s) ==
    /\ HandleStep
    /\ net[d].st = "inflight"
    /\ net' = [net EXCEPT ![d].st = "done"]
    /\ chain' = IF chain[d].phase = "fetching"
                THEN [chain EXCEPT ![d].phase = "decoding", ![d].resp = s]
                ELSE chain
    /\ UNCHANGED <<honour, cache, ac, aborted, optAbort, optBody, type,
                   fresh, hrets, hlast>>

\* The network operation fails (fetch rejects with a TypeError).
NetFail(d) ==
    /\ HandleStep
    /\ net[d].st = "inflight"
    /\ net' = [net EXCEPT ![d].st = "done"]
    /\ IF chain[d].phase = "fetching"
       THEN RejectChain(chain, d, "fetch", Raise("TypeError", 0), 0)
       ELSE UNCHANGED <<chain, cache>>
    /\ UNCHANGED <<honour, ac, aborted, optAbort, optBody, type,
                   fresh, hrets, hlast>>

\* A cancelled operation rejects its fetch promise with an AbortError.
NetAborted(d) ==
    /\ HandleStep
    /\ net[d].st = "cancelled"
    /\ chain[d].phase = "fetching"
    /\ RejectChain(chain, d, "fetch", Raise("AbortError", 0), 0)
    /\ UNCHANGED <<honour, ac, aborted, optAbort, optBody, type, net,
                   fresh, hrets, hlast>>

\* timeoutPromise: the timer fires (it is never cleared).  While the race is
\* undecided it rejects with a TimeoutError and the operation goes on; once
\* the race is decided the rejection of the timer promise is ignored.
Timeout(d) ==
    /\ HandleStep
    /\ net[d].timer = "armed"
    /\ net' = [net EXCEPT ![d].timer = "fired"]
    /\ IF chain[d].phase = "fetching"
       THEN RejectChain(chain, d, "fetch", Raise("TimeoutError", 0), 0)
       ELSE UNCHANGED <<chain, cache>>
    /\ UNCHANGED <<honour, ac, aborted, optAbort, optBody, type,
                   fresh, hrets, hlast>>

\* pm.responseData(response, extra) resolves: status < 400, the body decoded
\* by ExtractDataPlugin for the type the handle has now.
DecodeDone(d) ==
    /\ HandleStep
    /\ chain[d].phase = "decoding"
    /\ chain[d].resp < 400
    /\ chain' = [chain EXCEPT ![d].phase = "resolved", ![d].data = type]
    /\ UNCHANGED <<honour, cache, ac, aborted, optAbort, optBody, type,
                   net, fresh, hrets, hlast>>

\* ErrorPlugin.responseData: status >= 400 and a body that parses; throws
\* new HttpError({extra, response, serverInfo}).
DecodeServerError(d) ==
    /\ HandleStep
    /\ chain[d].phase = "decoding"
    /\ chain[d].resp >= 400
    /\ RejectChain(chain, d, "decode",
                   Raise("HttpError", chain[d].resp), chain[d].resp)
    /\ UNCHANGED <<honour, ac, aborted, optAbort, optBody, type, net,
                   fresh, hrets, hlast>>

\* A decoding stage throws: a stage supplied by the caller, or JSON.parse on
\* a body that does not parse (SyntaxError): the body of an error response
\* in ErrorPlugin.createServerErrorInfo, the body of any other response but
\* a 204 in ExtractDataPlugin when the type is json.
DecodeFail(d, cls) ==
    /\ HandleStep
    /\ chain[d].phase = "decoding"
    /\ cls = "SyntaxError" =>
          \/ chain[d].resp >= 400
          \/ type = "json" /\ chain[d].resp # 204
    /\ RejectChain(chain, d, "decode", Raise(cls, 0), chain[d].resp)
    /\ UNCHANGED <<honour, ac, aborted, optAbort, optBody, type, net,
                   fresh, hrets, hlast>>

\* ------------------------------------------------------------------ Loader

LoadIds == 1..MaxLoads

\* The errors a dispatch may reject with.
LoadErrors == {"e1", "e2"}

NoProm == [inner |-> "none", outer |-> "none", innerErr |-> "none", outerErr |-> "none"]

PromState(proms, k) == IF k = 0 THEN "idle" ELSE proms[k].outer

NextLoad == Cardinality({k \in LoadIds : lProm[k].inner # "none"}) + 1

\* The rest of Loader.fetch: this._fetch(this._fetcher).catch(this._onError)
\* stored in this._result; _fetch throws when no fetcher was given.
LoaderFetchNew ==
    IF ~lFetcher
    THEN /\ lLast' = [op |-> "fetch", ret |-> 0, met |-> "threw"]
         /\ UNCHANGED <<lResult, lProm, lFresh, lRets>>
    ELSE /\ NextLoad <= MaxLoads
         /\ lProm' = [lProm EXCEPT ![NextLoad] =
                        [NoProm EXCEPT !.inner = "pending", !.outer = "pending"]]
         /\ lResult' = NextLoad
         /\ lFresh' = lFresh \cup {NextLoad}
         /\ lRets' = lRets \cup {NextLoad}
         /\ lLast' = [op |-> "fetch", ret |-> NextLoad, met |-> "idle"]

\* Loader.fetch that ignores this._result.
LoaderFetchIgnoringCache == LoaderFetchNew

\* Loader.fetch(): this._result if set, else a new dispatch.
LoaderFetchBody ==
    IF lResult # 0
    THEN /\ lRets' = lRets \cup {lResult}
         /\ lLast' = [op |-> "fetch", ret |-> lResult,
                      met |-> PromState(lProm, lResult)]
         /\ UNCHANGED <<lResult, lProm, lFresh>>
    ELSE LoaderFetchNew

LoaderFetch ==
    /\ LoaderStep
    /\ LoaderFetchBody
    /\ UNCHANGED lFetcher

\* Loader.reset(): this._result = null
LoaderReset ==
    /\ LoaderStep
    /\ lResult' = 0
    /\ lFresh' = {}
    /\ lRets' = {}
    /\ lLast' = [op |-> "reset", ret |-> 0, met |-> PromState(lProm, lResult)]
    /\ UNCHANGED <<lFetcher, lProm>>

\* fetcher.fetch() resolves, and with it the promise Loader.fetch returned.
LoaderResolve(k) ==
    /\ LoaderStep
    /\ lProm[k].inner = "pending"
    /\ lProm' = [lProm EXCEPT ![k].inner = "resolved", ![k].outer = "resolved"]
    /\ UNCHANGED <<lFetcher, lResult, lFresh, lRets, lLast>>

\* fetcher.fetch() rejects with err; _onError has not run yet.
LoaderReject(k, err) ==
    /\ LoaderStep
    /\ lProm[k].inner = "pending"
    /\ lProm' = [lProm EXCEPT ![k].inner = "rejected", ![k].innerErr = err]
    /\ UNCHANGED <<lFetcher, lResult, lFresh, lRets, lLast>>

\* An _onError that rethrows and leaves this._result in place.
OnErrorKeepCache(k) ==
    /\ lResult' = lResult
    /\ lProm' = [lProm EXCEPT ![k].outer = "rejected",
                              ![k].outerErr = lProm[k].innerErr]

\* _onError(err): this.reset(); throw err
OnError(k) ==
    /\ lResult' = 0
    /\ lProm' = [lProm EXCEPT ![k].outer = "rejected",
                              ![k].outerErr = lProm[k].innerErr]

LoaderOnError(k) ==
    /\ LoaderStep
    /\ lProm[k].inner = "rejected"
    /\ lProm[k].outer = "pending"
    /\ OnError(k)
    /\ lFresh' = {}
    /\ lRets' = {}
    /\ lLast' = [op |-> "onError", ret |-> k, met |-> PromState(lProm, lResult)]
    /\ UNCHANGED lFetcher

\* ------------------------------------------------------- cacheable Fetcher

\* What fetch is called with: nothing, null, or a record of options.
FetchArgs == {"undefined", "null", "rec"}

\* params = {} when the argument is undefined; null stays null.
EffectiveParams(arg) == IF arg = "undefined" THEN "rec" ELSE arg

\* if (params): {} and every record are truthy, null is not.
ParamsTruthy(arg) == EffectiveParams(arg) = "rec"

NextCached == Cardinality({k \in LoadIds : cProm[k].inner # "none"}) + 1

\* Fetcher.fetch(params = {}) from the caller: with truthy params it calls
\* this.copy(params).fetch(); else it returns this._result or calls the
\* underlying fetch and, when cacheable, stores the promise.
CacheableFetch(arg) ==
    /\ CacheableStep
    /\ cDepth = 0
    /\ IF ParamsTruthy(arg)
       THEN /\ cDepth' = 1
            /\ cArg' = arg
            /\ UNCHANGED <<cResult, cProm, cFresh, cLast>>
       ELSE IF cResult # 0
       THEN /\ cLast' = [op |-> "fetch", arg |-> arg, issued |-> 0,
                         ret |-> cResult, outcome |-> "promise"]
            /\ UNCHANGED <<cResult, cProm, cFresh, cDepth, cArg>>
       ELSE /\ NextCached <= MaxLoads
            /\ cProm' = [cProm EXCEPT ![NextCached] =
                           [NoProm EXCEPT !.inner = "pending", !.outer = "pending"]]
            /\ cResult' = IF cCacheable THEN NextCached ELSE cResult
            /\ cFresh' = cFresh \cup {NextCached}
            /\ cLast' = [op |-> "fetch", arg |-> arg, issued |-> 1,
                         ret |-> NextCached, outcome |-> "promise"]
            /\ UNCHANGED <<cDepth, cArg>>
    /\ UNCHANGED cCacheable

\* The copy's fetch() runs with params = {} and calls fetch() on a copy of
\* itself: one more frame.
CacheableRecurse ==
    /\ CacheableStep
    /\ cDepth > 0
    /\ cDepth < StackLimit
    /\ cDepth' = cDepth + 1
    /\ UNCHANGED <<cCacheable, cResult, cProm, cArg, cFresh, cLast>>

\* The stack is full: the engine throws a RangeError, which unwinds every
\* frame to the caller.
CacheableOverflow ==
    /\ CacheableStep
    /\ cDepth = StackLimit
    /\ cDepth' = 0
    /\ cArg' = "none"
    /\ cLast' = [op |-> "fetch", arg |-> cArg, issued |-> 0, ret |-> 0,
                 outcome |-> "RangeError"]
    /\ UNCHANGED <<cCacheable, cResult, cProm, cFresh>>

\* Fetcher.reset(): this._result = null
CacheableReset ==
    /\ CacheableStep
    /\ cDepth = 0
    /\ cResult' = 0
    /\ cFresh' = {}
    /\ cLast' = [op |-> "reset", arg |-> "none", issued |-> 0, ret |-> 0,
                 outcome |-> "none"]
    /\ UNCHANGED <<cCacheable, cProm, cDepth, cArg>>

\* postProcess(fetch(..)) resolves, and with it the promise fetch returned.
CacheableResolve(k) ==
    /\ CacheableStep
    /\ cDepth = 0
    /\ cProm[k].inner = "pending"
    /\ cProm' = [cProm EXCEPT ![k].inner = "resolved", ![k].outer = "resolved"]
    /\ UNCHANGED <<cCacheable, cResult, cDepth, cArg, cFresh, cLast>>

\* postProcess(fetch(..)) rejects with err; _resetCache has not run yet.
CacheableReject(k, err) ==
    /\ CacheableStep
    /\ cDepth = 0
    /\ cProm[k].inner = "pending"
    /\ cProm' = [cProm EXCEPT ![k].inner = "rejected", ![k].innerErr = err]
    /\ UNCHANGED <<cCacheable, cResult, cDepth, cArg, cFresh, cLast>>

\* _resetCache(err): this.reset(); throw err
CacheableResetCache(k) ==
    /\ CacheableStep
    /\ cDepth = 0
    /\ cProm[k].inner = "rejected"
    /\ cProm[k].outer = "pending"
    /\ cResult' = 0
    /\ cProm' = [cProm EXCEPT ![k].outer = "rejected",
                              ![k].outerErr = cProm[k].innerErr]
    /\ cFresh' = {}
    /\ cLast' = [op |-> "resetCache", arg |-> "none", issued |-> 0, ret |-> k,
                 outcome |-> "none"]
    /\ UNCHANGED <<cCacheable, cDepth, cArg>>

\* -------------------------------------------------- Fetcher with preProcess

\* A descriptor: which object it is, whether it has a preProcess, and the
\* fetch function it holds.
NoDesc == [id |-> "none", pre |-> FALSE, fn |-> "none"]

\* The records fetch(rec) may be given: none, one without preProcess, one
\* with a preProcess of its own.
Recs == {"none", "plain", "withPre"}

\* this.copy(rec): preProcess and fetchFn come from rec alone, so a copy made
\* from a rec without them has no preProcess and the default fetch function.
Copy(f, rec) ==
    [id |-> "copy", pre |-> (rec = "withPre"), fn |-> "global"]

\* The descriptors a preProcess may resolve with: the one it was given, or
\* another one derived from it by copy.
Resolutions(f) == {f, [id |-> "derived", pre |-> FALSE, fn |-> "global"]}

\* f._fetch(g): this._fetchFn.call(null, g.fullUrl, g.options), then
\* g.postProcess.
FetchCall(f, g) == [fn |-> f.fn, url |-> g.id, post |-> g.id]

\* Fetcher.fetch(rec) from the caller.
PreFetch(rec) ==
    /\ PreprocessStep
    /\ pPc = "idle"
    /\ LET opts == IF rec = "none" THEN pBase ELSE Copy(pBase, rec) IN
       IF pBase.pre
       THEN /\ pPc' = "pre"
            /\ pArg' = opts
            /\ pPre' = 1
            /\ UNCHANGED pCalls
       ELSE /\ pPc' = "done"
            /\ pCalls' = Append(pCalls, FetchCall(pBase, opts))
            /\ UNCHANGED <<pArg, pPre>>
    /\ UNCHANGED <<pBase, pFirst>>

\* preProcess(opts) resolves with f and callFetch runs f.fetch(): f's own
\* preProcess again when it has one, else f._fetch(f).
PreResolve(f) ==
    /\ PreprocessStep
    /\ pPc = "pre"
    /\ f \in Resolutions(pArg)
    /\ pFirst' = IF pFirst = NoDesc THEN f ELSE pFirst
    /\ IF f.pre
       THEN /\ pPc' = "pre"
            /\ pArg' = f
            /\ pPre' = IF pPre < MaxPreRuns THEN pPre + 1 ELSE pPre
            /\ UNCHANGED pCalls
       ELSE /\ pPc' = "done"
            /\ pCalls' = Append(pCalls, FetchCall(f, f))
            /\ UNCHANGED <<pArg, pPre>>
    /\ UNCHANGED pBase

\* preProcess(opts) rejects: the fetch rejects and nothing is called.
PreReject ==
    /\ PreprocessStep
    /\ pPc = "pre"
    /\ pPc' = "done"
    /\ UNCHANGED <<pBase, pArg, pFirst, pPre, pCalls>>

\* ----------------------------------------------------------- PluginManager

\* What a method of a stage does: the stage has no such method, the method
\* returns nothing (undefined), or it returns a value.
Capabilities == {"absent", "nothing", "value"}

\* A stage supplied by the caller: any combination of the three methods.
UserPlugins ==
    [name : {"user"}, upd : Capabilities, fet : Capabilities,
     dec : Capabilities]

\* FetchPlugin: fetch alone; what it returns is what the fetch primitive
\* behind it resolves with (a Response, or nothing with a stubbed primitive).
FetchPlugins ==
    [name : {"FetchPlugin"}, upd : {"absent"}, fet : {"value", "nothing"},
     dec : {"absent"}]

\* ErrorPlugin: responseData alone; it returns nothing below 400 and throws
\* an HttpError from 400 on.
ErrorPluginRec ==
    [name |-> "ErrorPlugin", upd |-> "absent", fet |-> "absent",
     dec |-> "byStatus"]

\* An error-detection stage that lets the status 400 pass.
ErrorPluginThrowsAbove(status) == status > 400

\* ErrorPlugin.responseData: if (response.status < 400) return; otherwise
\* the body is read and an HttpError is thrown.
ErrorPluginThrows(status) == status >= 400

\* ExtractDataPlugin: responseData alone; it returns the decoded body.
ExtractDataPluginRec ==
    [name |-> "ExtractDataPlugin", upd |-> "absent", fet |-> "absent",
     dec |-> "value"]

\* The plugins argument of the PluginManager constructor.
PluginLists ==
    {<<>>} \cup {<<p>> : p \in UserPlugins}
           \cup {<<p, q>> : p \in UserPlugins, q \in UserPlugins}

\* this.plugins = [...plugins, ...defaultPlugins]
Registered(plugins, fp) ==
    plugins \o <<fp, ErrorPluginRec, ExtractDataPluginRec>>

\* A chain that asks every stage that has the method.
QueriedAlways(cap, prev) == cap # "absent"

\* prev === undefined && plugin.fetch (createFetch), and
\* normalized === undefined && plugin.responseData (createResponseData)
Queried(cap, prev) == prev = 0 /\ cap # "absent"

\* An updater that starts again from the original options when the stage
\* returned nothing.
CreateUpdaterDropsInput(cap, prev, i) ==
    IF cap = "value" THEN Append(prev, i) ELSE <<>>

\* createUpdater: Promise.resolve(plugin.updateOptions(prev)).then(next =>
\* next || prev); a value a stage returns is derived from what it received.
CreateUpdater(cap, prev, i) ==
    IF cap = "value" THEN Append(prev, i) ELSE prev

\* A fetch chain that passes an undefined response on.
FetchedUnchecked(resp) == TRUE

\* if (resp === undefined) throw new Error('Need FetchPlugin' + extra)
Fetched(resp) == resp # 0

PluginsStepDone(phase) ==
    /\ mIdx' = 1
    /\ mPhase' = phase

\* A chain whose callbacks do not wait for the promise before them.
AwaitsNothing(running) == TRUE

\* result = result.then(callback): the callback of a stage runs when the
\* promise of the callback before it has settled.
Awaits(running) == running = 0

\* FetcherResponse.result(): pm.updateOptions(this) builds the chain of
\* updaters from Promise.resolve(extra).
PmDispatch ==
    /\ PluginsStep
    /\ mPhase = "idle"
    /\ mPhase' = "update"
    /\ mIdx' = 1
    /\ UNCHANGED <<mPlugins, mStatus, mExtra, mResp, mData, mErr, mCalls,
                   mRunning>>

\* The updater of stage mIdx runs (a stage without updateOptions has none);
\* after the last one the result of the chain goes to pm.fetch(extra).
PmUpdate ==
    /\ PluginsStep
    /\ mPhase = "update"
    /\ Awaits(mRunning)
    /\ LET cap == mPlugins[mIdx].upd IN
         /\ mExtra' = CreateUpdater(cap, mExtra, mIdx)
         /\ mCalls' = IF cap # "absent"
                      THEN Append(mCalls, [kind |-> "upd", idx |-> mIdx,
                                           extra |-> mExtra, resp |-> 0,
                                           busy |-> mRunning])
                      ELSE mCalls
         /\ mRunning' = IF cap # "absent" THEN mIdx ELSE mRunning
    /\ IF mIdx < Len(mPlugins)
       THEN mIdx' = mIdx + 1 /\ UNCHANGED mPhase
       ELSE PluginsStepDone("fetch")
    /\ UNCHANGED <<mPlugins, mStatus, mResp, mData, mErr>>

\* The createFetch callback of stage mIdx runs.
PmFetch ==
    /\ PluginsStep
    /\ mPhase = "fetch"
    /\ Awaits(mRunning)
    /\ LET cap == mPlugins[mIdx].fet IN
         IF Queried(cap, mResp)
         THEN /\ mResp' = IF cap = "value" THEN mIdx ELSE 0
              /\ mCalls' = Append(mCalls, [kind |-> "fet", idx |-> mIdx,
                                           extra |-> mExtra, resp |-> 0,
                                           busy |-> mRunning])
              /\ mRunning' = mIdx
         ELSE UNCHANGED <<mResp, mCalls, mRunning>>
    /\ IF mIdx < Len(mPlugins)
       THEN mIdx' = mIdx + 1 /\ UNCHANGED mPhase
       ELSE PluginsStepDone("fetched")
    /\ UNCHANGED <<mPlugins, mStatus, mExtra, mData, mErr>>

\* The last callback of pm.fetch: no response raises the Error, which the
\* fetch catch of result() wraps; a response goes to pm.responseData.
PmFetched ==
    /\ PluginsStep
    /\ mPhase = "fetched"
    /\ Awaits(mRunning)
    /\ IF Fetched(mResp)
       THEN /\ mPhase' = "decode"
            /\ UNCHANGED mErr
       ELSE /\ mPhase' = "rejected"
            /\ mErr' = "Need FetchPlugin"
    /\ UNCHANGED <<mPlugins, mStatus, mIdx, mExtra, mResp, mData, mCalls,
                   mRunning>>

\* The createResponseData callback of stage mIdx runs.
PmDecode ==
    /\ PluginsStep
    /\ mPhase = "decode"
    /\ Awaits(mRunning)
    /\ LET cap == mPlugins[mIdx].dec
           asked == Queried(cap, mData)
           throws == asked /\ cap = "byStatus" /\ ErrorPluginThrows(mStatus) IN
         /\ mCalls' = IF asked
                      THEN Append(mCalls, [kind |-> "dec", idx |-> mIdx,
                                           extra |-> mExtra, resp |-> mResp,
                                           busy |-> mRunning])
                      ELSE mCalls
         /\ mRunning' = IF asked /\ ~throws THEN mIdx ELSE mRunning
         /\ mData' = IF asked /\ cap = "value" THEN mIdx ELSE mData
         /\ IF throws
            THEN /\ mPhase' = "rejected"
                 /\ mErr' = "HttpError"
                 /\ UNCHANGED mIdx
            ELSE /\ UNCHANGED mErr
                 /\ IF mIdx < Len(mPlugins)
                    THEN mIdx' = mIdx + 1 /\ UNCHANGED mPhase
                    ELSE PluginsStepDone("resolved")
    /\ UNCHANGED <<mPlugins, mStatus, mExtra, mResp>>

\* The promise the method of the running stage returned settles.
PmSettle ==
    /\ PluginsStep
    /\ mRunning # 0
    /\ mRunning' = 0
    /\ UNCHANGED <<mPlugins, mStatus, mPhase, mIdx, mExtra, mResp, mData,
                   mErr, mCalls>>

\* ------------------------------------------------- Fetcher (request map)

\* The methods of the verb calls, as the strings request() is given.
VerbMethods == {<<"G", "E", "T">>, <<"P", "O", "S", "T">>}

\* The urls the verb calls are given.
Urls == {<<"/", "a">>, <<"/", "a", ".", "b">>}

\* const key = `${method}.${url}`
RequestKey(method, url) == method \o <<".">> \o url

RequestKeys == {RequestKey(m, u) : m \in VerbMethods, u \in Urls}

\* request(method, url): requestMap.get(key), or a new FetcherResponse
\* stored under the key.
Request(method, url) ==
    IF rMap[RequestKey(method, url)] # 0
    THEN UNCHANGED <<rHandles, rMap>>
    ELSE /\ Len(rHandles) < MaxHandles
         /\ rHandles' = Append(rHandles, [method |-> method, url |-> url,
                                          key |-> RequestKey(method, url)])
         /\ rMap' = [rMap EXCEPT ![RequestKey(method, url)] = Len(rHandles) + 1]

\* get(url), post(url), put(url), delete(url), patch(url)
Verb(method, url) ==
    /\ FetcherStep
    /\ Request(method, url)
    /\ LET key == RequestKey(method, url) IN
         /\ rLast' = [op |-> "verb", method |-> method, url |-> url,
                      ret |-> rMap'[key], given |-> rGiven[key]]
         /\ rGiven' = [rGiven EXCEPT ![key] = rMap'[key]]

\* destructor() of handle h, which the caller may hold after it was
\* destroyed: this.ac.abort(); this.requestMap.delete(this.key)
Destructor(h) ==
    /\ FetcherStep
    /\ h \in DOMAIN rHandles
    /\ rMap' = [rMap EXCEPT ![rHandles[h].key] = 0]
    /\ rGiven' = [k \in RequestKeys |-> IF rGiven[k] = h THEN 0 ELSE rGiven[k]]
    /\ rLast' = [op |-> "destructor", method |-> rHandles[h].method,
                 url |-> rHandles[h].url, ret |-> h, given |-> 0]
    /\ UNCHANGED rHandles

\* reset()/abort() that also drops the handle from the request map.
HandleClearEvicts(op, h) ==
    /\ FetcherStep
    /\ h \in DOMAIN rHandles
    /\ rMap' = [rMap EXCEPT ![rHandles[h].key] = 0]
    /\ rLast' = [op |-> op, method |-> rHandles[h].method,
                 url |-> rHandles[h].url, ret |-> h,
                 given |-> rGiven[rHandles[h].key]]
    /\ UNCHANGED <<rHandles, rGiven>>

\* reset() or abort() of handle h: this.ac.abort(); this.cache = undefined.
\* Neither reads this.requestMap or this.key.
HandleClear(op, h) ==
    /\ FetcherStep
    /\ h \in DOMAIN rHandles
    /\ rLast' = [op |-> op, method |-> rHandles[h].method,
                 url |-> rHandles[h].url, ret |-> h,
                 given |-> rGiven[rHandles[h].key]]
    /\ UNCHANGED <<rHandles, rMap, rGiven>>

\* ------------------------------------------------------------ mergeHeaders

HeaderNames == {"a", "b"}

HeaderValues == {"1", "2"}

\* What get(name) gives: nothing (<<>>), one value, or, in a Headers object
\* that was appended to, the values joined in the order they were appended.
NoValue == <<>>

HeaderMaps == [HeaderNames -> {NoValue} \cup {<<v>> : v \in HeaderValues}]

EmptyMap == [k \in HeaderNames |-> NoValue]

\* A HeadersInit argument: null, a plain mapping, or a Headers object.
NoHeaders == [rep |-> "null", map |-> EmptyMap]

HeaderSets == {NoHeaders} \cup [rep : {"plain", "Headers"}, map : HeaderMaps]

\* result.append(name, v) for every entry of headers when Headers exists
\* (entries() of a Headers object, Object.keys of a plain mapping), else
\* result = {...result, ...headers}; null and non-objects are skipped.
MergeInto(result, headers, supported) ==
    IF headers.rep = "null" THEN result
    ELSE IF supported
    THEN [rep |-> "Headers",
          map |-> [k \in DOMAIN result.map |->
                      IF k \in DOMAIN headers.map
                      THEN result.map[k] \o headers.map[k]
                      ELSE result.map[k]]]
    ELSE [rep |-> "plain",
          map |-> [k \in DOMAIN result.map |->
                      IF k \in DOMAIN headers.map /\ headers.map[k] # NoValue
                      THEN headers.map[k]
                      ELSE result.map[k]]]

\* mergeHeaders(...headerSets), from new Headers() or {}.
RECURSIVE MergeHeadersFrom(_, _, _)
MergeHeadersFrom(result, sets, supported) ==
    IF sets = <<>> THEN result
    ELSE MergeHeadersFrom(MergeInto(result, Head(sets), supported),
                          Tail(sets), supported)

MergeHeaders(sets, supported) ==
    MergeHeadersFrom([rep |-> IF supported THEN "Headers" ELSE "plain",
                      map |-> [k \in DOMAIN sets[1].map |-> NoValue]],
                     sets, supported)

MergeCall ==
    /\ MergeStep
    /\ gOut = NoHeaders
    /\ gOut' = MergeHeaders(gSets, gSupported)
    /\ UNCHANGED <<gSupported, gSets>>

\* ------------------------------------------- Fetcher options (part_003)

\* Options of FetcherRec that the constructor stores as they are given.
OptionFields ==
    {"baseUrl", "url", "serializeParams", "preProcess", "fetchFn", "method",
     "body"}

\* A rec gives an option or leaves it out.
Absent == "absent"

\* What the constructor stores for an option that rec leaves out or gives
\* with a falsy value: rec.baseUrl || '/', rec.url || '', rec.fetchFn ||
\* fetch, rec.preProcess || null, and so on.
DefaultOption(f) ==
    CASE f = "baseUrl" -> "/"
      [] f = "url"     -> ""
      [] f = "fetchFn" -> "fetch"
      [] OTHER         -> "null"

Falsy(v) == v \in {Absent, "null", ""}

\* No Fetcher: copy was not called yet.
NoCopy == [f \in OptionFields |-> "none"]

\* constructor(rec)
FetcherConstructor(rec) ==
    [f \in OptionFields |-> IF Falsy(rec[f]) THEN DefaultOption(f) ELSE rec[f]]

\* copy(rec): new this.constructor({baseUrl: rec.baseUrl || this._baseUrl,
\* serializeParams: this._serializeParams, url: this._url, ...this.options,
\* ...rec, ..}); preProcess and fetchFn reach the constructor from rec alone.
FetcherCopy(a, rec) ==
    FetcherConstructor(
        [f \in OptionFields |->
            IF f \in {"preProcess", "fetchFn"} THEN rec[f]
            ELSE IF rec[f] # Absent THEN rec[f]
            ELSE a[f]])

\* a.copy(rec)
CopyCall(rec) ==
    /\ oCopy = NoCopy
    /\ OptionsStep
    /\ oRec' = rec
    /\ oCopy' = FetcherCopy(oSrc, rec)
    /\ UNCHANGED oSrc

\* -------------------------------------------- Fetcher.copy (index.js)

ContentType == "Content-Type"

FormUrlEncoded == "application/x-www-form-urlencoded;charset=utf-8"

\* The header mappings the caller writes: {}, {a: '1'}, and one with a
\* Content-Type of its own.
HeaderLiteral(a, ct) ==
    [k \in {"a", ContentType} |-> IF k = "a" THEN a ELSE ct]

HeaderLiterals ==
    {HeaderLiteral(NoValue, NoValue), HeaderLiteral(<<"1">>, NoValue),
     HeaderLiteral(NoValue, <<"text/plain">>)}

\* rec.headers of a copy call: left out, a plain mapping, a Headers object.
RecHeaders(supported) ==
    {[rep |-> "null", map |-> HeaderLiteral(NoValue, NoValue)]}
        \cup [rep : IF supported THEN {"plain", "Headers"} ELSE {"plain"},
              map : HeaderLiterals]

\* rec.body: left out, a string, a plain object, a URLSearchParams.
RecBodies == {"none", "text", "object", "usp"}

\* rec.params: left out, or a mapping, of which the keys matter here.
NoParams == [given |-> FALSE, keys |-> {}]

ParamsOf(keys) == [given |-> TRUE, keys |-> keys]

\* The functions the caller supplies as postProcess, each a sequence of
\* primitive steps ("inc": v => v + 1, "dbl": v => v * 2); pass is the
\* empty sequence, and so is a postProcess that is left out.
Pass == <<>>

PostFns == {<<"inc">>, <<"dbl">>}

PostStep(name, v) == IF name = "inc" THEN v + 1 ELSE v * 2

RECURSIVE ApplyPost(_, _)
ApplyPost(fn, v) ==
    IF fn = <<>> THEN v ELSE ApplyPost(Tail(fn), PostStep(Head(fn), v))

\* A composition that applies the override first.
ComposeOverrideFirst(fn1, fn2) == fn2 \o fn1

\* composePostProcess(fn1, fn2) = (params) => fn2(fn1(params))
ComposePostProcess(fn1, fn2) == fn1 \o fn2

\* No Fetcher yet, and a constructor that threw.
NoObj == [threw |-> FALSE]

Threw == [threw |-> TRUE]

\* A check that lets an empty params mapping through.
ParamsWithoutSerializerNonEmpty(params, ser) ==
    params.keys # {} /\ ser = "none"

\* if (this._params) { if (!this._serializeParams) throw new TypeError(..) }
ParamsWithoutSerializer(params, ser) == params.given /\ ser = "none"

\* constructor(rec), with rec.headers a reference (0: left out).  The headers
\* object the Fetcher keeps is the one it was given, or a new {}; for a
\* URLSearchParams body without a Content-Type that object is written to.
\* A plain object body is stored as its JSON string.  params without
\* serializeParams throws, after the headers were handled; fullUrl is what
\* serializeParams makes of the params, or the url alone.
DescConstruct(heap, rec) ==
    LET h0 == IF rec.headers = 0
              THEN Append(heap, [rep |-> "plain",
                                 map |-> HeaderLiteral(NoValue, NoValue)])
              ELSE heap
        ref == IF rec.headers = 0 THEN Len(heap) + 1 ELSE rec.headers
        h1 == IF rec.body = "usp" /\ h0[ref].map[ContentType] = NoValue
              THEN [h0 EXCEPT ![ref].map[ContentType] = <<FormUrlEncoded>>]
              ELSE h0
    IN [heap |-> h1,
        obj  |-> IF ParamsWithoutSerializer(rec.params, rec.ser)
                 THEN Threw
                 ELSE [ser |-> rec.ser, post |-> rec.post,
                       params |-> rec.params, headers |-> ref,
                       body |-> IF rec.body = "object" THEN "json" ELSE rec.body,
                       method |-> rec.method,
                       fullUrl |-> IF rec.params.given
                                   THEN <<rec.ser, rec.params.keys>>
                                   ELSE <<>>]]

\* copy(rec): the constructor is given this.options and rec spread over it,
\* the composed postProcess, the merged params, and as headers the merged
\* headers when rec has headers, else this.options.headers itself.
DescCopy(heap, a, rec, supported) ==
    LET given == rec.headers.rep # "null"
        h0 == IF given
              THEN Append(heap, MergeHeaders(<<heap[a.headers], rec.headers>>,
                                             supported))
              ELSE heap
    IN DescConstruct(h0,
          [ser |-> IF rec.ser # "none" THEN rec.ser ELSE a.ser,
           post |-> IF rec.post # <<>>
                    THEN ComposePostProcess(a.post, rec.post)
                    ELSE a.post,
           params |-> IF a.params.given
                      THEN ParamsOf(a.params.keys \cup rec.params.keys)
                      ELSE rec.params,
           headers |-> IF given THEN Len(heap) + 1 ELSE a.headers,
           body |-> IF rec.body # "none" THEN rec.body ELSE a.body,
           method |-> IF rec.method # "none" THEN rec.method ELSE a.method])

\* The fields of a Fetcher, with the headers it refers to.
Fields(heap, obj) == [obj EXCEPT !.headers = heap[obj.headers]]

\* The recs of the copy calls.
CopyRecs(supported) ==
    [headers : RecHeaders(supported), body : RecBodies,
     params : {NoParams, ParamsOf({}), ParamsOf({"q"})},
     ser : {"none", "s2"}, post : {<<>>} \cup PostFns,
     method : {"none", "POST"}]

\* No copy call yet.
NoRec ==
    [headers |-> [rep |-> "null", map |-> HeaderLiteral(NoValue, NoValue)],
     body |-> "none", params |-> NoParams, ser |-> "none", post |-> <<>>,
     method |-> "none"]

\* a.copy(rec), for any rec.
DescCopyCall ==
    /\ dB = NoObj
    /\ dA # Threw
    /\ DescriptorStep
    /\ \E rec \in CopyRecs(dSupported) :
         LET r == DescCopy(dHeap, dA, rec, dSupported) IN
           /\ dHeap' = r.heap
           /\ dB' = r.obj
           /\ dRec' = rec
    /\ dBefore' = Fields(dHeap, dA)
    /\ UNCHANGED <<dSupported, dA>>

\* ------------------------------------- createSerializeParams (index.js)

\* The characters \\w matches, and the characters of a template.
WordChars == {"a", "b"}

TemplateChars == {"/", ":"} \cup WordChars

Templates == UNION {[1..n -> TemplateChars] : n \in 0..MaxTemplate}

\* The keys a params mapping may have, in the order they were written.
ParamKeys == << <<"a">>, <<"b">> >>

\* A key of the mapping: left out, or a string (the empty one included).
NoParam == [has |-> FALSE, v |-> <<>>]

ParamValues == {NoParam, [has |-> TRUE, v |-> <<>>],
                [has |-> TRUE, v |-> <<"1">>]}

ParamMaps == [{ParamKeys[i] : i \in 1..Len(ParamKeys)} -> ParamValues]

\* params[k]
Lookup(params, k) == IF k \in DOMAIN params THEN params[k] ELSE NoParam

\* A value as a condition: undefined and '' are falsy.
Truthy(v) == v.has /\ v.v # <<>>

\* The last character of the longest run of \\w characters from position i
\* on (i - 1: no such character at i).
RECURSIVE RunEnd(_, _)
RunEnd(t, i) ==
    IF i <= Len(t) /\ t[i] \in WordChars THEN RunEnd(t, i + 1) ELSE i - 1

\* A replace callback that leaves the key in newParams.
DeleteKeyForgotten(used, k) == used

\* delete newParams[k]
DeleteKey(used, k) == used \cup {k}

\* template.replace(/:([\\w]+)/g, callback) from position i on, with the
\* string built so far and the keys deleted from newParams: a ':' followed
\* by \\w characters is a match with the longest such run as key k; the
\* callback throws when params[k] is falsy, else it deletes k from
\* newParams and gives params[k].
RECURSIVE Replace(_, _, _, _, _)
Replace(t, i, params, str, used) ==
    IF i > Len(t)
    THEN [threw |-> FALSE, key |-> <<>>, str |-> str,
          newParams |-> [k \in DOMAIN params |->
                            IF k \in used THEN NoParam ELSE params[k]]]
    ELSE IF t[i] = ":" /\ RunEnd(t, i + 1) > i
    THEN LET k == SubSeq(t, i + 1, RunEnd(t, i + 1)) IN
           IF ~Truthy(Lookup(params, k))
           THEN [threw |-> TRUE, key |-> k, str |-> <<>>,
                 newParams |-> params]
           ELSE Replace(t, RunEnd(t, i + 1) + 1, params,
                        str \o Lookup(params, k).v, DeleteKey(used, k))
    ELSE Replace(t, i + 1, params, Append(str, t[i]), used)

RegExpMapString(template, params) == Replace(template, 1, params, <<>>, {})

\* querystring.stringify, the stringify of the tests: k=v of the keys the
\* mapping has, in their order, joined by '&'.
RECURSIVE StringifyFrom(_, _, _)
StringifyFrom(params, i, acc) ==
    IF i > Len(ParamKeys) THEN acc
    ELSE LET k == ParamKeys[i] IN
           IF params[k].has
           THEN StringifyFrom(params, i + 1,
                    (IF acc = <<>> THEN <<>> ELSE Append(acc, "&"))
                        \o k \o <<"=">> \o params[k].v)
           ELSE StringifyFrom(params, i + 1, acc)

Stringify(params) == StringifyFrom(params, 1, <<>>)

\* serializeParams(url, params) of createSerializeParams(stringify)
SerializeParams(url, params) ==
    LET r == RegExpMapString(url, params) IN
      IF r.threw THEN [threw |-> TRUE, key |-> r.key, str |-> <<>>]
      ELSE LET qStr == Stringify(r.newParams) IN
             [threw |-> FALSE, key |-> <<>>,
              str |-> r.str \o (IF qStr # <<>> THEN <<"?">> \o qStr
                                ELSE <<>>)]

\* fullUrl of the Fetcher constructor of index.js, params given:
\* this._serializeParams(this._baseUrl + this._url, this._params)
FullUrl(baseUrl, url, params) == SerializeParams(baseUrl \o url, params)

\* fullUrl of the later Fetcher constructor, params given:
\* this._baseUrl + this._serializeParams(this._url, this._params)
FullUrlLater(baseUrl, url, params) ==
    LET r == SerializeParams(url, params) IN
      IF r.threw THEN r ELSE [r EXCEPT !.str = baseUrl \o r.str]

\* No call yet.
NoOut == [op |-> "none"]

\* serializeParams(sTemplate, sParams)
SerializeCall ==
    /\ sOut = NoOut
    /\ SerializeStep
    /\ sOut' = [op |-> "serialize", r |-> SerializeParams(sTemplate, sParams)]
    /\ UNCHANGED <<sBase, sTemplate, sParams>>

\* new Fetcher({baseUrl, url, params, serializeParams}) of index.js
ConstructFetcher ==
    /\ sOut = NoOut
    /\ SerializeStep
    /\ sOut' = [op |-> "Fetcher", r |-> FullUrl(sBase, sTemplate, sParams)]
    /\ UNCHANGED <<sBase, sTemplate, sParams>>

\* new Fetcher({baseUrl, url, params, serializeParams}) of the later Fetcher
ConstructFetcherLater ==
    /\ sOut = NoOut
    /\ SerializeStep
    /\ sOut' = [op |-> "FetcherLater",
                r |-> FullUrlLater(sBase, sTemplate, sParams)]
    /\ UNCHANGED <<sBase, sTemplate, sParams>>

\* --------------------------------------------------- Repository (part_003)

\* What the constructor is given: nothing (the default key getter), or, as
\* the README writes it, a Fetcher; the Fetcher then is this._getKey.
RepoArgs == {"none", "fetcher"}

\* The params of the recs, as written: a sequence of key and value.
Pair(k, v) == [k |-> k, v |-> v]

WrittenParams ==
    { <<>>,
      <<Pair(<<"a">>, <<"1">>)>>,
      <<Pair(<<"a">>, <<"2">>)>>,
      <<Pair(<<"a">>, <<"1">>), Pair(<<"b">>, <<"1">>)>>,
      <<Pair(<<"b">>, <<"1">>), Pair(<<"a">>, <<"1">>)>> }

\* The url of a rec: left out (the default, ''), or 'b'.
RepoUrls == {<<>>, <<"b">>}

\* The recs of fetch and reset: params (none: left out), whether the rec
\* carries a serializeParams, and its url (given with no params and with
\* the params a: 1).
RepoRecs ==
    {r \in [params : WrittenParams, ser : {"none", "s"}, url : RepoUrls] :
        /\ r.params = <<>> => r.ser = "none"
        /\ r.url # <<>> =>
              \/ r.params = <<>>
              \/ r.params = <<Pair(<<"a">>, <<"1">>)>> /\ r.ser = "s"}

\* The mapping a written params object is.
ParamSet(written) == {written[i] : i \in 1..Len(written)}

ParamMap(written) ==
    [k \in {ParamKeys[i] : i \in 1..Len(ParamKeys)} |->
        IF \E p \in ParamSet(written) : p.k = k
        THEN [has |-> TRUE, v |-> (CHOOSE p \in ParamSet(written) : p.k = k).v]
        ELSE NoParam]

\* The order of sort() on the keys.
KeyRank(k) == IF Head(k) = "a" THEN 1 ELSE 2

\* Object.keys(params).sort(): the smallest key first.
RECURSIVE Sorted(_)
Sorted(pairs) ==
    IF pairs = {} THEN <<>>
    ELSE LET m == CHOOSE p \in pairs :
                     \A o \in pairs : KeyRank(p.k) <= KeyRank(o.k)
         IN <<m>> \o Sorted(pairs \ {m})

\* .map(key => `${key}:${params[key]}`).join('.')
RECURSIVE JoinKey(_)
JoinKey(pairs) ==
    IF pairs = <<>> THEN <<>>
    ELSE Head(pairs).k \o <<":">> \o Head(pairs).v
           \o (IF Len(pairs) > 1 THEN <<".">> \o JoinKey(Tail(pairs))
               ELSE <<>>)

\* A key getter that takes the keys as written.
DefaultGetKeyAsWritten(rec) == JoinKey(rec.params)

\* defaultGetKey(rec)
DefaultGetKey(rec) == JoinKey(Sorted(ParamSet(rec.params)))

\* this._getKey(params) throws when the constructor was given a Fetcher.
GetKeyThrows == qArg = "fetcher"

\* new Fetcher(rec): throws for params without serializeParams; fullUrl is
\* that of a Fetcher with the default baseUrl and url.
RepoFetcherThrows(rec) ==
    rec.params # <<>> /\ rec.ser = "none"

RepoFullUrl(rec) ==
    IF rec.params # <<>>
    THEN FullUrlLater(<<"/">>, rec.url, ParamMap(rec.params)).str
    ELSE <<"/">> \o rec.url

\* A reset that clears every loader.
ResetLoaderAll(loaders, key) ==
    [k \in DOMAIN loaders |-> [loaders[k] EXCEPT !.result = 0]]

\* loader.reset() of the loader of the key, if there is one.
ResetLoader(loaders, key) ==
    IF key \in DOMAIN loaders
    THEN [loaders EXCEPT ![key].result = 0]
    ELSE loaders

\* The promises of a key no longer count as dispatched since its last
\* reset or failure.
EndWindow(proms, keys) ==
    [i \in DOMAIN proms |->
        IF proms[i].key \in keys THEN [proms[i] EXCEPT !.cur = FALSE]
        ELSE proms[i]]

RepoLast(op, rec, key, threw, ret, dispatched) ==
    [op |-> op, rec |-> rec, key |-> key, threw |-> threw, ret |-> ret,
     dispatched |-> dispatched, before |-> qLoaders]

NoRepoRec == [params |-> <<>>, ser |-> "none", url |-> <<>>]

\* repository.fetch(rec)
RepoFetch(rec) ==
    /\ Len(qProm) < MaxRepoDispatch
    /\ RepositoryStep
    /\ UNCHANGED qArg
    /\ IF GetKeyThrows
       THEN /\ qLast' = RepoLast("fetch", rec, <<>>, TRUE, 0, FALSE)
            /\ UNCHANGED <<qLoaders, qProm>>
       ELSE LET key == DefaultGetKey(rec)
                known == key \in DOMAIN qLoaders IN
         IF ~known /\ RepoFetcherThrows(rec)
         THEN /\ qLast' = RepoLast("fetch", rec, key, TRUE, 0, FALSE)
              /\ UNCHANGED <<qLoaders, qProm>>
         ELSE LET loader == IF known THEN qLoaders[key]
                            ELSE [rec |-> rec, result |-> 0] IN
           IF loader.result # 0
           THEN /\ qLast' = RepoLast("fetch", rec, key, FALSE,
                                     loader.result, FALSE)
                /\ UNCHANGED <<qLoaders, qProm>>
           ELSE /\ qProm' = Append(qProm,
                                [key |-> key, url |-> RepoFullUrl(loader.rec),
                                 st |-> "pending", cur |-> TRUE])
                /\ qLoaders' = (key :> [loader EXCEPT
                                           !.result = Len(qProm) + 1])
                                   @@ qLoaders
                /\ qLast' = RepoLast("fetch", rec, key, FALSE,
                                     Len(qProm) + 1, TRUE)

\* repository.reset(rec)
RepoReset(rec) ==
    /\ RepositoryStep
    /\ UNCHANGED qArg
    /\ IF GetKeyThrows
       THEN /\ qLast' = RepoLast("reset", rec, <<>>, TRUE, 0, FALSE)
            /\ UNCHANGED <<qLoaders, qProm>>
       ELSE LET key == DefaultGetKey(rec) IN
            /\ qLoaders' = ResetLoader(qLoaders, key)
            /\ qProm' = EndWindow(qProm, {key})
            /\ qLast' = RepoLast("reset", rec, key, FALSE, 0, FALSE)

\* repository.reset()
RepoResetAll ==
    /\ RepositoryStep
    /\ UNCHANGED qArg
    /\ qLoaders' = [k \in DOMAIN qLoaders |->
                       [qLoaders[k] EXCEPT !.result = 0]]
    /\ qProm' = EndWindow(qProm, DOMAIN qLoaders)
    /\ qLast' = RepoLast("resetAll", NoRepoRec, <<>>, FALSE, 0, FALSE)

\* The fetchFn call i resolves.
RepoResolve(i) ==
    /\ RepositoryStep
    /\ i \in DOMAIN qProm
    /\ qProm[i].st = "pending"
    /\ qProm' = [qProm EXCEPT ![i].st = "resolved"]
    /\ qLast' = RepoLast("resolve", NoRepoRec, qProm[i].key, FALSE, i, FALSE)
    /\ UNCHANGED <<qArg, qLoaders>>

\* The fetchFn call i rejects: Loader._onError resets the loader.
RepoReject(i) ==
    /\ RepositoryStep
    /\ i \in DOMAIN qProm
    /\ qProm[i].st = "pending"
    /\ qProm' = EndWindow([qProm EXCEPT ![i].st = "rejected"],
                          {qProm[i].key})
    /\ qLoaders' = [qLoaders EXCEPT ![qProm[i].key].result = 0]
    /\ qLast' = RepoLast("reject", NoRepoRec, qProm[i].key, FALSE, i, FALSE)
    /\ UNCHANGED qArg

\* ------------------------------------------- ExtractDataPlugin (part_000)

\* RequestType, and a ty that is none of them (the default branch).
ExtractTypes == {"json", "arrayBuffer", "blob", "formData", "text", "other"}

\* The body of a response: empty, a JSON text, a text that is no JSON.
ResponseBodies == {"", "{\"a\":1}", "oops"}

\* A value responseData gives: its kind, and whether it is empty.
Value(kind, empty) == [kind |-> kind, empty |-> empty]

Undefined == Value("undefined", TRUE)

\* What a body-reading method of the response resolves with.
ReadBody(method, body) ==
    Value(CASE method = "text" -> "string"
            [] method = "arrayBuffer" -> "ArrayBuffer"
            [] method = "blob" -> "Blob"
            [] method = "formData" -> "FormData",
          body = "")

\* The method of r the call invokes ("none": no method).
BodyMethod(ty, status) ==
    CASE ty = "json" -> IF status = 204 THEN "none" ELSE "text"
      [] ty = "text" -> IF status = 204 THEN "none" ELSE "text"
      [] ty \in {"arrayBuffer", "blob", "formData"} -> ty
      [] OTHER -> "none"

\* What the promise the call returned settles with: a value, or the
\* SyntaxError of JSON.parse.
ExtractData(ty, status, body) ==
    CASE ty = "json" ->
           IF status = 204 THEN [threw |-> FALSE, data |-> Value("object", TRUE)]
           ELSE IF body = "" THEN [threw |-> FALSE, data |-> Value("object", TRUE)]
           ELSE IF body = "oops" THEN [threw |-> TRUE, data |-> Undefined]
           ELSE [threw |-> FALSE, data |-> Value("object", FALSE)]
      [] ty = "text" ->
           IF status = 204 THEN [threw |-> FALSE, data |-> Value("string", TRUE)]
           ELSE [threw |-> FALSE, data |-> ReadBody("text", body)]
      [] ty \in {"arrayBuffer", "blob", "formData"} ->
           [threw |-> FALSE, data |-> ReadBody(ty, body)]
      [] OTHER -> [threw |-> FALSE, data |-> Undefined]

\* No call yet.
NoExtract == [st |-> "none"]

\* responseData(r, extra): the switch on extra.type
ExtractCall ==
    /\ eOut = NoExtract
    /\ ExtractStep
    /\ eOut' = [st |-> "called", reads |-> BodyMethod(eType, eStatus)]
    /\ UNCHANGED <<eType, eStatus, eBody>>

\* The promise the call returned settles.
ExtractSettle ==
    /\ eOut # NoExtract
    /\ eOut.st = "called"
    /\ ExtractStep
    /\ LET r == ExtractData(eType, eStatus, eBody) IN
         eOut' = [st |-> "settled", reads |-> eOut.reads,
                  threw |-> r.threw, data |-> r.data]
    /\ UNCHANGED <<eType, eStatus, eBody>>

\* ------------------------------------------------------------------- spec

InitHandle ==
    /\ honour \in BOOLEAN
    /\ cache = 0
    /\ ac = 0
    /\ aborted = {}
    /\ optAbort = 0
    /\ optBody = "none"
    /\ type = "text"
    /\ chain = [d \in DispatchIds |-> NoChain]
    /\ net = [d \in DispatchIds |-> NoNet]
    /\ fresh = {}
    /\ hrets = {}
    /\ hlast = [op |-> "new", ret |-> 0, met |-> "idle"]

InitLoader ==
    /\ lFetcher \in BOOLEAN
    /\ lResult = 0
    /\ lProm = [k \in LoadIds |-> NoProm]
    /\ lFresh = {}
    /\ lRets = {}
    /\ lLast = [op |-> "new", ret |-> 0, met |-> "idle"]

InitCacheable ==
    /\ cCacheable \in BOOLEAN
    /\ cResult = 0
    /\ cProm = [k \in LoadIds |-> NoProm]
    /\ cDepth = 0
    /\ cArg = "none"
    /\ cFresh = {}
    /\ cLast = [op |-> "new", arg |-> "none", issued |-> 0, ret |-> 0,
                outcome |-> "none"]

InitPreprocess ==
    /\ pBase \in {[id |-> "base", pre |-> b, fn |-> "fetchFn"] : b \in BOOLEAN}
    /\ pPc = "idle"
    /\ pArg = NoDesc
    /\ pFirst = NoDesc
    /\ pPre = 0
    /\ pCalls = <<>>

\* The stages and the response are open when the behaviour exercises the
\* PluginManager.
InitPlugins ==
    /\ mPlugins \in
          {Registered(ps, fp) :
              ps \in IF unit = "plugins" THEN PluginLists ELSE {<<>>},
              fp \in IF unit = "plugins" THEN FetchPlugins
                     ELSE {p \in FetchPlugins : p.fet = "value"}}
    /\ mStatus \in IF unit = "plugins" THEN {200, 400} ELSE {200}
    /\ mPhase = "idle"
    /\ mIdx = 1
    /\ mExtra = <<>>
    /\ mResp = 0
    /\ mData = 0
    /\ mErr = "none"
    /\ mCalls = <<>>
    /\ mRunning = 0

InitFetcher ==
    /\ rHandles = <<>>
    /\ rMap = [k \in RequestKeys |-> 0]
    /\ rGiven = [k \in RequestKeys |-> 0]
    /\ rLast = [op |-> "new", method |-> <<>>, url |-> <<>>, ret |-> 0,
                given |-> 0]

\* Without a Headers class no argument is a Headers object.  The arguments
\* are open when the behaviour exercises mergeHeaders.
InitMerge ==
    /\ gSupported \in IF unit = "merge" THEN BOOLEAN ELSE {FALSE}
    /\ gSets \in
          LET sets == IF unit # "merge" THEN {NoHeaders}
                      ELSE IF gSupported THEN HeaderSets
                      ELSE {h \in HeaderSets : h.rep # "Headers"}
          IN {<<x, y>> : x \in sets, y \in sets}
    /\ gOut = NoHeaders

\* A Fetcher built from any rec when the behaviour exercises copy.
InitOptions ==
    /\ oSrc \in {FetcherConstructor(r) :
                    r \in IF unit = "options"
                          THEN [OptionFields -> {Absent, "s"}]
                          ELSE {[f \in OptionFields |-> Absent]}}
    /\ oRec = [f \in OptionFields |-> Absent]
    /\ oCopy = NoCopy

\* The Fetcher a: new Fetcher(rec), with the headers object of rec, if any,
\* as the first object of the heap; no Fetcher when the constructor threw.
InitDescriptor ==
    /\ dSupported \in IF unit = "descriptor" THEN BOOLEAN ELSE {FALSE}
    /\ \E hs \in IF unit = "descriptor" THEN RecHeaders(dSupported)
                  ELSE {h \in RecHeaders(FALSE) : h.rep = "null"},
          body \in IF unit = "descriptor" THEN RecBodies ELSE {"none"},
          post \in IF unit = "descriptor" THEN {Pass, <<"inc">>} ELSE {Pass},
          ps \in IF unit = "descriptor"
                 THEN {[params |-> NoParams, ser |-> "none"],
                       [params |-> NoParams, ser |-> "s"],
                       [params |-> ParamsOf({"p"}), ser |-> "s"],
                       [params |-> ParamsOf({"p"}), ser |-> "none"]}
                 ELSE {[params |-> NoParams, ser |-> "none"]} :
          LET given == hs.rep # "null"
              r == DescConstruct(IF given THEN <<hs>> ELSE <<>>,
                      [ser |-> ps.ser, post |-> post, params |-> ps.params,
                       headers |-> IF given THEN 1 ELSE 0, body |-> body,
                       method |-> "none"])
          IN /\ dHeap = r.heap
             /\ dA = r.obj
             /\ dBefore = IF r.obj = Threw THEN Threw
                          ELSE Fields(r.heap, r.obj)
    /\ dB = NoObj
    /\ dRec = NoRec

\* The default baseUrl '/' or one with a placeholder, any template, any
\* params, when the behaviour exercises the serializer.
InitSerialize ==
    /\ sBase \in IF unit = "serialize" THEN {<<"/">>, <<"/", ":", "a">>}
                  ELSE {<<"/">>}
    /\ sTemplate \in IF unit = "serialize" THEN Templates ELSE {<<>>}
    /\ sParams \in IF unit = "serialize" THEN ParamMaps
                    ELSE {[k \in {ParamKeys[i] : i \in 1..Len(ParamKeys)} |-> NoParam]}
    /\ sOut = NoOut

\* new Repository(), or new Repository(fetcher) as in the README.
InitRepository ==
    /\ qArg \in IF unit = "repository" THEN RepoArgs ELSE {"none"}
    /\ qLoaders = <<>>
    /\ qProm = <<>>
    /\ qLast = [op |-> "new", rec |-> NoRepoRec, key |-> <<>>,
                threw |-> FALSE, ret |-> 0, dispatched |-> FALSE,
                before |-> <<>>]

\* Any type and response; a 204 response has no body.
InitExtract ==
    /\ eType \in IF unit = "extract" THEN ExtractTypes ELSE {"json"}
    /\ eStatus \in IF unit = "extract" THEN Statuses ELSE {200}
    /\ eBody \in IF unit = "extract" /\ eStatus # 204 THEN ResponseBodies
                  ELSE {""}
    /\ eOut = NoExtract

\* The state after construction when the behaviour exercises the object u:
\* the configuration choices of an object are open only then.
InitOf(u) ==
    /\ unit = u
    /\ InitHandle
    /\ InitLoader
    /\ InitCacheable
    /\ InitPreprocess
    /\ InitPlugins
    /\ InitFetcher
    /\ InitMerge
    /\ InitOptions
    /\ InitDescriptor
    /\ InitSerialize
    /\ InitRepository
    /\ InitExtract
    /\ unit # "handle" => ~honour
    /\ unit # "loader" => lFetcher
    /\ unit # "cacheable" => ~cCacheable
    /\ unit # "preprocess" => pBase.pre

Init == \E u \in Units : InitOf(u)

Next ==
    \/ \E acc \in Accessors, body \in Bodies : Dispatch(acc, body)
    \/ Reset
    \/ Abort
    \/ \E d \in DispatchIds, cls \in StageErrors : UpdateOptionsFail(d, cls)
    \/ \E d \in DispatchIds : UpdateOptionsDone(d)
    \/ \E d \in DispatchIds, cls \in StageErrors : FetchStageFail(d, cls)
    \/ \E d \in DispatchIds, s \in Statuses : NetResponse(d, s)
    \/ \E d \in DispatchIds : NetFail(d)
    \/ \E d \in DispatchIds : NetAborted(d)
    \/ \E d \in DispatchIds : Timeout(d)
    \/ \E d \in DispatchIds : DecodeDone(d)
    \/ \E d \in DispatchIds : DecodeServerError(d)
    \/ \E d \in DispatchIds, cls \in StageErrors \cup {"SyntaxError"} : DecodeFail(d, cls)
    \/ LoaderFetch
    \/ LoaderReset
    \/ \E k \in LoadIds : LoaderResolve(k)
    \/ \E k \in LoadIds, err \in LoadErrors : LoaderReject(k, err)
    \/ \E k \in LoadIds : LoaderOnError(k)
    \/ \E arg \in FetchArgs : CacheableFetch(arg)
    \/ CacheableRecurse
    \/ CacheableOverflow
    \/ CacheableReset
    \/ \E k \in LoadIds : CacheableResolve(k)
    \/ \E k \in LoadIds, err \in LoadErrors : CacheableReject(k, err)
    \/ \E k \in LoadIds : CacheableResetCache(k)
    \/ \E rec \in Recs : PreFetch(rec)
    \/ \E f \in Resolutions(pArg) : PreResolve(f)
    \/ PreReject
    \/ PmDispatch
    \/ PmUpdate
    \/ PmFetch
    \/ PmFetched
    \/ PmDecode
    \/ PmSettle
    \/ \E method \in VerbMethods, url \in Urls : Verb(method, url)
    \/ \E h \in 1..MaxHandles : Destructor(h)
    \/ \E op \in {"reset", "abort"}, h \in 1..MaxHandles : HandleClear(op, h)
    \/ MergeCall
    \/ \E rec \in [OptionFields -> {Absent, "r"}] : CopyCall(rec)

Spec == Init /\ [][Next]_vars

\* The Loader on its own.
LoaderInit == InitOf("loader")

LoaderNext ==
    \/ LoaderFetch
    \/ LoaderReset
    \/ \E k \in LoadIds : LoaderResolve(k)
    \/ \E k \in LoadIds, err \in LoadErrors : LoaderReject(k, err)
    \/ \E k \in LoadIds : LoaderOnError(k)

LoaderSpec == LoaderInit /\ [][LoaderNext]_vars

\* The PluginManager on its own: one dispatch through its chains.
PluginsInit == InitOf("plugins")

PluginsNext ==
    \/ PmDispatch
    \/ PmUpdate
    \/ PmFetch
    \/ PmFetched
    \/ PmDecode
    \/ PmSettle

PluginsSpec == PluginsInit /\ [][PluginsNext]_vars

\* A handle on its own, with a timer that fires: setTimeout runs its
\* callback once the delay has passed, whatever else is pending.
HandleInit == InitOf("handle")

HandleNext ==
    \/ \E acc \in Accessors, body \in Bodies : Dispatch(acc, body)
    \/ Reset
    \/ Abort
    \/ \E d \in DispatchIds, cls \in StageErrors : UpdateOptionsFail(d, cls)
    \/ \E d \in DispatchIds : UpdateOptionsDone(d)
    \/ \E d \in DispatchIds, cls \in StageErrors : FetchStageFail(d, cls)
    \/ \E d \in DispatchIds, s \in Statuses : NetResponse(d, s)
    \/ \E d \in DispatchIds : NetFail(d)
    \/ \E d \in DispatchIds : NetAborted(d)
    \/ \E d \in DispatchIds : Timeout(d)
    \/ \E d \in DispatchIds : DecodeDone(d)
    \/ \E d \in DispatchIds : DecodeServerError(d)
    \/ \E d \in DispatchIds, cls \in StageErrors \cup {"SyntaxError"} :
          DecodeFail(d, cls)

TimerFires == \A d \in DispatchIds : WF_vars(Timeout(d))

HandleLiveSpec == HandleInit /\ [][HandleNext]_vars /\ TimerFires

\* The Fetcher of the package on its own: its request map and the handles
\* it created.
FetcherInit == InitOf("fetcher")

FetcherNext ==
    \/ \E method \in VerbMethods, url \in Urls : Verb(method, url)
    \/ \E h \in 1..MaxHandles : Destructor(h)
    \/ \E op \in {"reset", "abort"}, h \in 1..MaxHandles : HandleClear(op, h)

FetcherSpec == FetcherInit /\ [][FetcherNext]_vars

\* The Fetcher of index.js on its own: one Fetcher and one copy call.
DescriptorInit == InitOf("descriptor")

DescriptorNext == DescCopyCall

DescriptorSpec == DescriptorInit /\ [][DescriptorNext]_vars

\* createSerializeParams on its own: one call on a template and params.
SerializeInit == InitOf("serialize")

SerializeNext ==
    \/ SerializeCall
    \/ ConstructFetcher
    \/ ConstructFetcherLater

SerializeSpec == SerializeInit /\ [][SerializeNext]_vars

\* A Repository on its own.
RepositoryInit == InitOf("repository")

RepositoryNext ==
    \/ \E rec \in RepoRecs : RepoFetch(rec)
    \/ \E rec \in RepoRecs : RepoReset(rec)
    \/ RepoResetAll
    \/ \E i \in 1..MaxRepoDispatch : RepoResolve(i)
    \/ \E i \in 1..MaxRepoDispatch : RepoReject(i)

RepositorySpec == RepositoryInit /\ [][RepositoryNext]_vars

\* ExtractDataPlugin.responseData on its own: one call on a response.
ExtractInit == InitOf("extract")

ExtractNext ==
    \/ ExtractCall
    \/ ExtractSettle

ExtractSpec == ExtractInit /\ [][ExtractNext]_vars

\* ----------------------------------------------------------------- claims

InFlight == {d \in DispatchIds : net[d].st = "inflight"}

Settled(d) == chain[d].phase \in {"resolved", "rejected"}

\* C1: at most one network operation started by the handle is in progress
\* at any time.
C1_AtMostOneNetworkOperation == Cardinality(InFlight) <= 1

\* C2 as stated: the dispatch calls made since the last reset()/abort()
\* returned one outcome, and once it settled the fetch stage was called
\* exactly once.
C2_ExactlyOneFetchStageCall ==
    /\ Cardinality(hrets) <= 1
    /\ \A d \in hrets : Settled(d) => chain[d].fetchCalls = 1

\* C2 amended: the dispatch calls made since the last reset()/abort()
\* returned one outcome and caused at most one call of the fetch stage:
\* none while the option-mutation stage runs or when it failed, exactly one
\* otherwise.
C2_OneOutcomeAtMostOneFetch ==
    /\ Cardinality(hrets) <= 1
    /\ \A d \in hrets :
          chain[d].fetchCalls =
              IF chain[d].phase = "updating" \/ chain[d].failedIn = "update"
              THEN 0 ELSE 1

\* A dispatch call met the settled failure of the first one and returned it.
C2_Witness ==
    /\ hlast.op = "dispatch"
    /\ hlast.met = "rejected"
    /\ hrets = {hlast.ret}
    /\ chain[hlast.ret].fetchCalls = 1

\* C3: reset() and abort() leave the cache empty whatever it held, and every
\* promise a dispatch call returns afterwards belongs to an operation started
\* after them; the same for Loader.reset() and Loader.fetch().
C3_ClearEmptiesCacheNextDispatchIsNew ==
    /\ hlast.op \in {"reset", "abort"} => cache = 0
    /\ hrets \subseteq fresh
    /\ hlast.op = "dispatch" /\ hlast.met = "idle" => hlast.ret \in fresh
    /\ lLast.op = "reset" => lResult = 0
    /\ lRets \subseteq lFresh

\* After the first dispatch resolved and the handle was reset, a dispatch
\* call started a second chain.
C3_Witness ==
    /\ hlast.op = "dispatch"
    /\ hlast.met = "idle"
    /\ chain[1].phase = "resolved"
    /\ hlast.ret = 2
    /\ chain[2].phase = "fetching"

\* C4: every rejection of a dispatch is an HttpError; an HttpError raised in
\* a stage is the rejection itself, anything else is wrapped exactly once.
C4_RejectionsAreHttpErrorsWrappedOnce ==
    \A d \in DispatchIds :
        chain[d].phase = "rejected" =>
            /\ chain[d].err.cls = "HttpError"
            /\ IsHttpError(chain[d].raised) => chain[d].err = chain[d].raised
            /\ ~IsHttpError(chain[d].raised) =>
                  /\ chain[d].err.wraps = 1
                  /\ chain[d].err.parent = chain[d].raised.cls

\* An HttpError raised by a decoding stage passed all three catch handlers.
C4_Witness ==
    \E d \in DispatchIds :
        /\ chain[d].phase = "rejected"
        /\ chain[d].failedIn = "decode"
        /\ IsHttpError(chain[d].raised)
        /\ chain[d].err = chain[d].raised

\* C5 as stated: a failed dispatch is not left in the cache.
C5_FailureClearsCache ==
    \A d \in DispatchIds : chain[d].phase = "rejected" => cache # d

\* C5 amended: a failed dispatch stays in the cache until reset()/abort(),
\* and a dispatch call that meets it returns that failure.
C5_FailureStaysCached ==
    /\ \A d \in fresh : chain[d].phase = "rejected" => cache = d
    /\ hlast.op = "dispatch" /\ hlast.met = "rejected" =>
          /\ hlast.ret = cache
          /\ chain[hlast.ret].phase = "rejected"

\* A dispatch call after the failure of the cached dispatch.
C5_Witness ==
    /\ hlast.op = "dispatch"
    /\ hlast.met = "rejected"
    /\ chain[cache].failedIn = "fetch"

\* C6: when the dispatch of Loader.fetch() fails, _onError leaves the cache
\* empty, the promise the callers hold rejects with the error of the
\* dispatch, and Loader.fetch() never returns a promise that has rejected.
C6_LoaderFailureClearsCacheAndRethrows ==
    /\ \A k \in LoadIds :
          lProm[k].outer = "rejected" =>
              /\ lProm[k].innerErr \in LoadErrors
              /\ lProm[k].outerErr = lProm[k].innerErr
    /\ lResult # 0 => lProm[lResult].outer # "rejected"
    /\ lLast.op = "onError" => lResult = 0
    /\ lLast.op = "fetch" => lLast.met # "rejected"

\* Loader.fetch() after a failed dispatch started another dispatch.
C6_Witness ==
    /\ lLast.op = "fetch"
    /\ lLast.met = "idle"
    /\ lResult = lLast.ret
    /\ \E k \in LoadIds : k # lLast.ret /\ lProm[k].outer = "rejected"

\* C7: in a stretch without reset() and without a failed dispatch, the
\* Loader.fetch() calls called fetcher.fetch() once and returned one promise.
C7_LoaderFetchesOncePerWindow ==
    /\ Cardinality(lFresh) <= 1
    /\ Cardinality(lRets) <= 1
    /\ lRets # {} => lFresh = lRets

\* Loader.fetch() after the dispatch resolved returned the cached promise.
C7_Witness ==
    /\ lLast.op = "fetch"
    /\ lLast.met = "resolved"
    /\ lRets = {lLast.ret}
    /\ lFresh = lRets

\* C8: a fetch call on a cacheable Fetcher returns the memoized promise of
\* the one underlying call made since the last reset; on a Fetcher that is
\* not cacheable it makes its own underlying call and memoizes nothing.
C8_CacheableFetchDeduplicates ==
    cLast.op = "fetch" =>
        /\ cLast.outcome = "promise"
        /\ IF cCacheable
           THEN Cardinality(cFresh) = 1 /\ cResult = cLast.ret
           ELSE cLast.issued = 1 /\ cResult = 0

\* C9: fetch() with no argument returns a promise and issues one call of the
\* underlying fetch (or, on a cacheable Fetcher, returns the memoized one).
C9_FetchWithoutArgumentIssuesOneCall ==
    cLast.op = "fetch" /\ cLast.arg = "undefined" =>
        /\ cLast.outcome = "promise"
        /\ cLast.issued = 1 \/ cCacheable

\* C10: once preProcess has resolved, preProcess has run once and the fetch
\* function was called once, with the fullUrl, options and postProcess of the
\* descriptor preProcess resolved with.
C10_PreProcessThenOneFetchCall ==
    pFirst # NoDesc =>
        /\ pPre = 1
        /\ pCalls = <<FetchCall(pFirst, pFirst)>>

\* The stage that failed chain d was one the caller supplied: the default
\* stages raise a SyntaxError or an HttpError that carries the status.
RaisedByCaller(d) ==
    \/ chain[d].raised.cls = "Error"
    \/ chain[d].raised.cls = "HttpError" /\ chain[d].raised.status = 0

\* C11: with the default stages, a dispatch whose response has a status
\* outside 200-299 rejects with an HttpError whose status is that of the
\* response, whatever the body of the response.
C11_NonSuccessStatusRejectsWithThatStatus ==
    \A d \in DispatchIds :
        /\ Settled(d)
        /\ chain[d].resp # 0
        /\ chain[d].resp \notin 200..299
        /\ ~RaisedByCaller(d)
        => /\ chain[d].phase = "rejected"
           /\ chain[d].err.cls = "HttpError"
           /\ chain[d].err.status = chain[d].resp

\* C15: the race of the network call against the timer is decided once.  A
\* timer that fires while the dispatch waits for the response rejects it
\* with the TimeoutError, and nothing changes that dispatch afterwards; a
\* timer that fires after the response was delivered, and a response that
\* is delivered after the timer fired, change nothing of the dispatch.
C15_TimeoutRaceDecidedOnce ==
    [][\A d \in DispatchIds :
          /\ net[d].timer = "armed" /\ net'[d].timer = "fired" =>
                IF chain[d].phase = "fetching"
                THEN /\ chain'[d].phase = "rejected"
                     /\ chain'[d].raised.cls = "TimeoutError"
                ELSE chain'[d] = chain[d]
          /\ net[d].st = "inflight" /\ net'[d].st = "done"
                /\ chain[d].phase # "fetching" => chain'[d] = chain[d]
          /\ chain[d].raised.cls = "TimeoutError" => chain'[d] = chain[d]
      ]_vars

\* The response arrived after the timer had rejected the dispatch.
C15_Witness ==
    \E d \in DispatchIds :
        /\ chain[d].phase = "rejected"
        /\ chain[d].raised.cls = "TimeoutError"
        /\ net[d].timer = "fired"
        /\ net[d].st = "done"

\* C16: a dispatch that timed out rejects with an error that identifies the
\* timeout and has status 408.
C16_TimeoutRejectsWithStatus408 ==
    \A d \in DispatchIds :
        chain[d].phase = "rejected" /\ chain[d].raised.cls = "TimeoutError" =>
            /\ chain[d].err.parent = "TimeoutError"
            /\ chain[d].err.status = TimeoutStatusCode

\* The stages whose method of one kind was invoked in this dispatch.
CalledIdx(kind) ==
    {mCalls[j].idx : j \in {i \in DOMAIN mCalls : mCalls[i].kind = kind}}

\* The members of a set of stage numbers, in ascending order.
Ascending(S) ==
    CHOOSE q \in [1..Cardinality(S) -> S] :
        \A a, b \in 1..Cardinality(S) : a < b => q[a] < q[b]

\* The first stage of the registration order that has the method and, asked
\* for this response, returns a value (0: there is none).
FirstValue(kind) ==
    LET V == {k \in DOMAIN mPlugins :
                 IF kind = "fet" THEN mPlugins[k].fet = "value"
                                 ELSE mPlugins[k].dec = "value"}
    IN IF V = {} THEN 0 ELSE CHOOSE k \in V : \A j \in V : k <= j

\* The stages that have the method of that kind.
Capable(kind) ==
    {k \in DOMAIN mPlugins :
        IF kind = "fet" THEN mPlugins[k].fet # "absent"
                        ELSE mPlugins[k].dec # "absent"}

\* C12: the fetch methods, and likewise the responseData methods, are
\* invoked in registration order; the first stage that returns a value
\* gives the result of the chain, every stage registered before it that has
\* the method was asked, and no stage registered after it is.
C12_FirstStageWithResultWins ==
    /\ \A i, j \in DOMAIN mCalls :
          i < j /\ mCalls[i].kind = mCalls[j].kind =>
              mCalls[i].idx < mCalls[j].idx
    /\ \A kind \in {"fet", "dec"} :
          FirstValue(kind) # 0 =>
              \A k \in CalledIdx(kind) : k <= FirstValue(kind)
    /\ mPhase \in {"fetched", "decode", "resolved"} =>
          /\ mResp = FirstValue("fet")
          /\ CalledIdx("fet") =
                {k \in Capable("fet") : mResp = 0 \/ k <= mResp}
    /\ mPhase = "resolved" =>
          /\ mData = FirstValue("dec")
          /\ CalledIdx("dec") =
                {k \in Capable("dec") : mData = 0 \/ k <= mData}

\* The second stage of the caller answered the fetch after the first one
\* returned nothing, and the first one decoded the response.
C12_Witness ==
    /\ mPhase = "resolved"
    /\ mPlugins[1].fet = "nothing"
    /\ mResp = 2
    /\ mData = 1
    /\ Cardinality(Capable("dec")) = 4

\* C13: each updateOptions receives what the option-mutating stages
\* registered before it returned, folded in registration order from the
\* original options, a stage that returns nothing adding nothing; the fetch
\* and responseData methods receive the result of all of them.
C13_UpdateOptionsFoldsLeft ==
    /\ \A j \in DOMAIN mCalls :
          mCalls[j].extra =
              Ascending({k \in DOMAIN mPlugins :
                            /\ mPlugins[k].upd = "value"
                            /\ mCalls[j].kind = "upd" => k < mCalls[j].idx})
    /\ mPhase # "idle" /\ mPhase # "update" =>
          CalledIdx("upd") = {k \in DOMAIN mPlugins : mPlugins[k].upd # "absent"}

\* The first stage returned new options, the second one nothing, and the
\* decoding stages were given the options of the first.
C13_Witness ==
    /\ mPhase = "resolved"
    /\ mPlugins[1].upd = "value"
    /\ mPlugins[2].upd = "nothing"
    /\ \E j \in DOMAIN mCalls :
          mCalls[j].kind = "dec" /\ mCalls[j].extra = <<1>>

\* C14: when every stage that has a fetch method returned nothing, the
\* dispatch rejects with the error that says a FetchPlugin is needed, and
\* no responseData method is invoked.
C14_NoResponseFailsBeforeDecoding ==
    /\ mResp = 0 => CalledIdx("dec") = {}
    /\ FirstValue("fet") = 0 /\ mPhase \in {"decode", "resolved", "rejected"} =>
          /\ mPhase = "rejected"
          /\ mErr = "Need FetchPlugin"

\* Two fetch methods returned nothing and the dispatch was rejected, though
\* a stage of the caller could decode.
C14_Witness ==
    /\ mPhase = "rejected"
    /\ mErr = "Need FetchPlugin"
    /\ Cardinality(CalledIdx("fet")) = 2
    /\ mPlugins[1].dec = "value"

\* C17: a verb call returns the handle that the last verb call with that
\* method and url returned, unless that handle was destroyed since, and the
\* handle it returns is one made for that method and that url (so calls that
\* differ in either return distinct handles).
C17_SameKeySameHandle ==
    rLast.op = "verb" =>
        /\ rLast.given # 0 => rLast.ret = rLast.given
        /\ rHandles[rLast.ret].method = rLast.method
        /\ rHandles[rLast.ret].url = rLast.url

\* The value of header k in the last of the sets that has it.
LastGiven(sets, k) ==
    LET has == {i \in DOMAIN sets : sets[i].map[k] # NoValue}
    IN IF has = {} THEN NoValue
       ELSE sets[CHOOSE i \in has : \A j \in has : j <= i].map[k]

\* C20: in the result of mergeHeaders every header has the value given by
\* the last argument that contains it (so no header of an earlier argument is
\* lost), whether the arguments are plain mappings or Headers objects, and
\* merging a collection with itself gives a collection with the same entries.
C20_MergeHeadersRightBiased ==
    gOut # NoHeaders =>
        /\ \A k \in HeaderNames : gOut.map[k] = LastGiven(gSets, k)
        /\ gSets[1] = gSets[2] => gOut.map = gSets[1].map

\* C19: in the Fetcher copy(rec) returns, every option has the value rec
\* gives for it, and the value of the source Fetcher when rec leaves it out.
C19_CopyOverridesElseInherits ==
    oCopy # NoCopy =>
        \A f \in OptionFields :
            oCopy[f] = IF oRec[f] # Absent THEN oRec[f] ELSE oSrc[f]

\* C18: copy(rec) leaves every field of the Fetcher it is called on as it
\* was (the entries of its headers, params, body and the other options,
\* fullUrl, postProcess), for every rec, whether copy returns a Fetcher or
\* throws.
C18_CopyLeavesSourceUnchanged ==
    dB # NoObj => Fields(dHeap, dA) = dBefore

\* The values postProcess functions are tried on.
PostInputs == {0, 1, 2}

\* The copy call returned a Fetcher.
Copied == dB # NoObj /\ dB # Threw

\* C21: postProcess composition preserves order: for every Fetcher a,
\* function f and input x, a.copy({postProcess: f}).postProcess(x) equals
\* f(a.postProcess(x)); a copy whose rec has no postProcess has the
\* postProcess of a, which is the identity when none was ever configured.
C21_PostProcessComposesInOrder ==
    Copied =>
        \A x \in PostInputs :
            /\ dRec.post # <<>> =>
                  ApplyPost(dB.post, x)
                      = ApplyPost(dRec.post, ApplyPost(dBefore.post, x))
            /\ dRec.post = <<>> => dB.post = dBefore.post
            /\ (dRec.post = <<>> /\ dBefore.post = Pass) =>
                  ApplyPost(dB.post, x) = x

\* A Fetcher with v => v + 1 was copied with v => v * 2: 1 becomes 4.
C21_Witness ==
    /\ Copied
    /\ dBefore.post = <<"inc">>
    /\ dRec.post = <<"dbl">>
    /\ ApplyPost(dB.post, 1) = 4

\* C22: building a Fetcher, with the constructor or through copy, whose
\* resulting params are set while no serializeParams is configured (neither
\* inherited nor given by the rec) throws and yields no Fetcher.
C22_ParamsWithoutSerializerThrows ==
    /\ dA # Threw => ~(dA.params.given /\ dA.ser = "none")
    /\ Copied => ~(dB.params.given /\ dB.ser = "none")
    /\ ( /\ dB # NoObj
         /\ dBefore.params.given \/ dRec.params.given
         /\ dBefore.ser = "none"
         /\ dRec.ser = "none" ) => dB = Threw

\* A Fetcher without serializeParams was copied with params and the copy
\* threw.
C22_Witness ==
    /\ dB = Threw
    /\ dBefore.ser = "none"
    /\ dRec.ser = "none"
    /\ dRec.params = ParamsOf({"q"})

\* The placeholders of a template: the positions of a ':' that a \\w
\* character follows, and the key of each, the \\w characters up to the next
\* character that is none.
PlaceholderStarts(t) ==
    {i \in 1..Len(t) : t[i] = ":" /\ i < Len(t) /\ t[i + 1] \in WordChars}

KeyEnd(t, i) ==
    CHOOSE j \in (i + 1)..Len(t) :
        /\ \A m \in (i + 1)..j : t[m] \in WordChars
        /\ j = Len(t) \/ t[j + 1] \notin WordChars

KeyAt(t, i) == SubSeq(t, i + 1, KeyEnd(t, i))

PlaceholderKeys(t) == {KeyAt(t, i) : i \in PlaceholderStarts(t)}

\* What position i of the template contributes to the path: the value of
\* the key where a placeholder starts, nothing inside a placeholder, the
\* character itself elsewhere.
Piece(t, params, i) ==
    IF i \in PlaceholderStarts(t) THEN Lookup(params, KeyAt(t, i)).v
    ELSE IF \E p \in PlaceholderStarts(t) : p < i /\ i <= KeyEnd(t, p)
    THEN <<>>
    ELSE <<t[i]>>

RECURSIVE PathFrom(_, _, _)
PathFrom(t, params, i) ==
    IF i > Len(t) THEN <<>>
    ELSE Piece(t, params, i) \o PathFrom(t, params, i + 1)

\* The params no placeholder of the template uses.
Unused(t, params) ==
    [k \in DOMAIN params |->
        IF k \in PlaceholderKeys(t) THEN NoParam ELSE params[k]]

\* The url the documentation describes for a template and its params.
Documented(t, params) ==
    LET query == Stringify(Unused(t, params)) IN
      PathFrom(t, params, 1)
          \o (IF \E k \in DOMAIN params : Unused(t, params)[k].has
              THEN <<"?">> \o query ELSE <<>>)

\* C23: with a serializer made by createSerializeParams every key of the
\* params is used in exactly one way: the value of a key a placeholder
\* names replaces the placeholder and the key is not in the query string,
\* every other key is in the query string, and '?' is appended only when
\* keys remain.
C23_EachParamUsedOnce ==
    (sOut.op = "serialize" /\ ~sOut.r.threw) =>
        sOut.r.str = Documented(sTemplate, sParams)

\* /:a with params a and b: /1?b=1
C23_Witness ==
    /\ sOut.op = "serialize"
    /\ sTemplate = <<"/", ":", "a">>
    /\ sOut.r.threw = FALSE
    /\ sOut.r.str = <<"/", "1", "?", "b", "=", "1">>

\* C24: serialization fails, naming the key, exactly when the template has
\* a placeholder whose key the params do not have; when the params have the
\* key of every placeholder it succeeds.
C24_FailsExactlyOnMissingKey ==
    sOut.op = "serialize" =>
        /\ sOut.r.threw <=>
              \E k \in PlaceholderKeys(sTemplate) : ~Lookup(sParams, k).has
        /\ sOut.r.threw =>
              /\ sOut.r.key \in PlaceholderKeys(sTemplate)
              /\ ~Lookup(sParams, sOut.r.key).has

\* C25: placeholders in baseUrl are substituted from params like those in
\* url: when the params have a value for every placeholder of baseUrl and
\* url, fullUrl is the url documented for baseUrl + url, with no
\* placeholder left in it.
C25_BaseUrlPlaceholdersSubstituted ==
    ( /\ sOut.op \in {"Fetcher", "FetcherLater"}
      /\ \A k \in PlaceholderKeys(sBase \o sTemplate) :
            Truthy(Lookup(sParams, k)) ) =>
        /\ ~sOut.r.threw
        /\ sOut.r.str = Documented(sBase \o sTemplate, sParams)
        /\ PlaceholderStarts(sOut.r.str) = {}

\* The loaders, among those given, built for the same params as rec,
\* whatever the order the params were written in.
SameParams(loaders, rec) ==
    {k \in DOMAIN loaders :
        ParamSet(loaders[k].rec.params) = ParamSet(rec.params)}

\* C26: reset(rec) clears the cached result of exactly the loader whose key
\* is the key of rec (nothing when there is none) and leaves the cached
\* result of every other loader unchanged; reset() clears the cached result
\* of every loader.
C26_ResetClearsOneOrAll ==
    /\ qLast.op \in {"reset", "resetAll"} => DOMAIN qLoaders = DOMAIN qLast.before
    /\ qLast.op = "reset" =>
          \A k \in DOMAIN qLoaders :
              qLoaders[k].result =
                  IF ~qLast.threw /\ k \in SameParams(qLast.before, qLast.rec)
                  THEN 0 ELSE qLast.before[k].result
    /\ qLast.op = "resetAll" =>
          \A k \in DOMAIN qLoaders : qLoaders[k].result = 0

\* Two loaders had a cached result; reset(rec) cleared one and left the
\* other.
C26_Witness ==
    /\ qLast.op = "reset"
    /\ \E k1, k2 \in DOMAIN qLoaders :
          /\ qLast.before[k1].result # 0
          /\ qLast.before[k2].result # 0
          /\ qLoaders[k1].result = 0
          /\ qLoaders[k2].result # 0

BaseFetcher == [baseUrl |-> <<"/">>, url |-> <<":", "a">>]

\* C28: a Repository is constructed over a base fetcher and fetch(rec)
\* dispatches the request of rec applied to that fetcher: with the fetcher
\* of /:a, fetch({params: {a: '1'}}) requests /1.
C28_FetchAppliesRecToBaseFetcher ==
    ( /\ qArg = "fetcher"
      /\ qLast.op = "fetch"
      /\ \E p \in ParamSet(qLast.rec.params) : p.k = <<"a">> ) =>
        /\ ~qLast.threw
        /\ qProm[qLast.ret].url
              = FullUrlLater(BaseFetcher.baseUrl, BaseFetcher.url,
                             ParamMap(qLast.rec.params)).str

\* The empty value of a declared type.
EmptyOf(ty) ==
    Value(CASE ty = "json" -> "object"
            [] ty = "text" -> "string"
            [] ty = "arrayBuffer" -> "ArrayBuffer"
            [] ty = "blob" -> "Blob"
            [] ty = "formData" -> "FormData",
          TRUE)

\* C29: for a response with status 204 the data-extraction stage gives an
\* empty value of the declared type ({} for json, '' for text, an empty
\* value of the type for arrayBuffer, blob and formData) without invoking
\* any body-reading method of the response.
C29_NoContentWithoutReadingBody ==
    (eOut # NoExtract /\ eStatus = 204 /\ eType # "other") =>
        /\ eOut.reads = "none"
        /\ eOut.st = "settled" =>
              ~eOut.threw /\ eOut.data = EmptyOf(eType)

\* The phase a stage method belongs to: option mutation, the network
\* call, response decoding.
PhaseOf(kind) == CASE kind = "upd" -> 1 [] kind = "fet" -> 2 [] kind = "dec" -> 3

\* C30: within one dispatch every option-mutation stage has completed
\* before the network call starts, the network call has completed before
\* any response-decoding stage starts, and within each phase the stages
\* run one at a time in registration order (the plugins of the caller
\* before the built-in ones), none starting before the previous one has
\* completed.
C30_StagesRunInOrderOneAtATime ==
    /\ \A j \in DOMAIN mCalls : mCalls[j].busy = 0
    /\ \A i, j \in DOMAIN mCalls :
          i < j =>
              /\ PhaseOf(mCalls[i].kind) <= PhaseOf(mCalls[j].kind)
              /\ mCalls[i].kind = mCalls[j].kind =>
                    mCalls[i].idx < mCalls[j].idx
    /\ \A j \in DOMAIN mCalls :
          mCalls[j].kind # "upd" =>
              CalledIdx("upd") =
                  {k \in DOMAIN mPlugins : mPlugins[k].upd # "absent"}
    /\ \A j \in DOMAIN mCalls :
          mCalls[j].kind = "dec" => mCalls[j].resp # 0
    /\ \A a, b \in DOMAIN mPlugins :
          (mPlugins[a].name = "user" /\ mPlugins[b].name # "user") => a < b

\* Two stages of the caller mutated the options, the second one fetched,
\* the first one decoded, and the method of the last one has not completed.
C30_Witness ==
    /\ Len(mCalls) >= 4
    /\ mCalls[1].kind = "upd" /\ mCalls[1].idx = 1
    /\ mCalls[2].kind = "upd" /\ mCalls[2].idx = 2
    /\ \E j \in DOMAIN mCalls : mCalls[j].kind = "fet" /\ mCalls[j].idx = 2
    /\ mCalls[Len(mCalls)].kind = "dec"
    /\ mRunning = mCalls[Len(mCalls)].idx

\* C31: a promise a dispatch call returned after the last reset()/abort()
\* is fed by no operation started before that reset()/abort(): its network
\* operation was issued by a chain started since, and a step in which a
\* chain started before delivers its outcome changes none of the promises
\* returned since.
C31_NoOutcomeOfEarlierOperation ==
    [][\A d \in DispatchIds :
          d \notin fresh' /\ chain'[d] # chain[d] =>
              /\ d \notin hrets'
              /\ \A e \in hrets' : chain'[e] = chain[e]
      ]_vars

\* The handle was reset while the first dispatch waited for its response,
\* a second dispatch was started, and then the first response arrived.
C31_Witness ==
    /\ hrets = {2}
    /\ fresh = {2}
    /\ chain[2].phase = "fetching"
    /\ net[1].st = "done"
    /\ chain[1].phase = "decoding"

\* The place of ErrorPlugin in PluginManager.plugins: the defaults come
\* last, FetchPlugin, ErrorPlugin, ExtractDataPlugin.
ErrorIdx == Len(mPlugins) - 1

\* The stages registered ahead of ErrorPlugin whose responseData returns a
\* value for this response.
DecodedAhead == {k \in 1..(ErrorIdx - 1) : mPlugins[k].dec = "value"}

\* ErrorPlugin.responseData was invoked in this dispatch.
ErrorStageAsked ==
    \E j \in DOMAIN mCalls : mCalls[j].kind = "dec" /\ mCalls[j].idx = ErrorIdx

ToJSONRequest(e, body) ==
    [id |-> "id", url |-> "url", method |-> "method",
     body |-> IF body # "none" THEN body ELSE "null"]

\* C33: the request information an HttpError reports is that of the
\* originating request when the error was constructed: no step, in
\* particular no later dispatch with another body, changes what toJSON of
\* the error of a rejected dispatch gives.
C33_ErrorRequestIsSnapshot ==
    [][\A d \in DispatchIds :
          chain[d].phase = "rejected" /\ chain'[d].phase = "rejected" =>
              ToJSONRequest(chain'[d].err, optBody')
                  = ToJSONRequest(chain[d].err, optBody)
      ]_vars

\* C34: reset() and abort() leave the request map as it is, so a handle
\* that is registered under its key stays registered and the next verb call
\* with that key returns it; an entry leaves the map in a destructor() step
\* only.
C34_OnlyDestructorEvicts ==
    [][/\ rLast'.op \in {"reset", "abort"} => rMap' = rMap
       /\ \A k \in RequestKeys :
             rMap[k] # 0 /\ rMap'[k] # rMap[k] => rLast'.op = "destructor"
       /\ rLast.op \in {"reset", "abort"} /\ rLast'.op = "verb"
             /\ rLast'.method = rLast.method /\ rLast'.url = rLast.url
             /\ rMap[rHandles[rLast.ret].key] = rLast.ret
          => rLast'.ret = rLast.ret
      ]_vars

\* A registered handle was reset while another handle was registered too.
C34_Witness ==
    /\ rLast.op = "reset"
    /\ rMap[rHandles[rLast.ret].key] = rLast.ret
    /\ Cardinality({k \in RequestKeys : rMap[k] # 0}) = 2

\* C38: destructor() of a handle removes an entry of the request map only
\* when the entry is that handle, so a handle a verb call returned and that
\* was not destroyed since is the one registered under its key.
C38_DestructorEvictsOnlyItself ==
    [][/\ rLast'.op = "destructor" =>
             \A k \in RequestKeys :
                 rMap'[k] # rMap[k] => rMap[k] = rLast'.ret
       /\ \A k \in RequestKeys : rGiven'[k] # 0 => rMap'[k] = rGiven'[k]
      ]_vars

\* C35: in Loader and in the cacheable Fetcher the failure of a dispatch
\* clears the cache only when the cache holds the promise of that dispatch:
\* the error handler of an earlier dispatch leaves a newer cached promise
\* in place, so the next fetch() returns it and starts no dispatch.
C35_StaleFailureKeepsNewerPromise ==
    [][/\ lLast'.op = "onError" /\ lLast' # lLast /\ lResult # lLast'.ret =>
             lResult' = lResult
       /\ cLast'.op = "resetCache" /\ cLast' # cLast /\ cResult # cLast'.ret =>
             cResult' = cResult
      ]_vars

\* The dispatches that have started and not settled.
Pending == {d \in DispatchIds :
               chain[d].phase \in {"updating", "fetching", "decoding"}}

\* C36: the payload of a dispatch is decoded according to the type of the
\* accessor that started it.  ExtractDataPlugin reads extra.type when
\* responseData runs and extra is the handle, so the claim says: from the
\* start of a dispatch until it settles the type of the handle does not
\* change, whatever accessor is called meanwhile, and the data the dispatch
\* resolves with is of that type.
C36_DecodedAsTheStartingAccessor ==
    [][\A d \in Pending :
          /\ type' = type
          /\ chain'[d].phase = "resolved" => chain'[d].data = type
      ]_vars

\* C37: the network call of a dispatch carries the body given to the
\* dispatch call that started it, none when that call gave none, and the
\* cancellation signal made for it.  The call is issued with options.body
\* and options.abort as they are when the option-mutation stage ends, so:
\* a dispatch call that starts a chain leaves in options.body what it was
\* given; until the call of a started dispatch is issued, options.body and
\* options.abort do not change; and the call is issued with the signal of
\* the controller made for that dispatch.
C37_CallCarriesItsOwnBodyAndSignal ==
    [][/\ \A acc \in Accessors, body \in Bodies :
             cache = 0 /\ Dispatch(acc, body) => optBody' = body
       /\ \A d \in DispatchIds :
             chain[d].phase = "updating" /\ chain'[d].phase = "updating" =>
                 optBody' = optBody /\ optAbort' = optAbort
       /\ \A d \in DispatchIds :
             net[d].st = "none" /\ net'[d].st # "none" => net'[d].signal = d
      ]_vars

\* Two recs describe the same request: the same params mapping and the
\* same url.
SameRequest(r1, r2) ==
    /\ ParamSet(r1.params) = ParamSet(r2.params)
    /\ r1.url = r2.url

\* C39: Repository.fetch(rec) resolves with the result of dispatching rec
\* itself: the loader that serves a fetch was built for a rec that describes
\* the same request, and the promise returned is that of a request to the
\* url of rec.
C39_ServedByItsOwnRequest ==
    qLast.op = "fetch" /\ ~qLast.threw =>
        /\ SameRequest(qLoaders[qLast.key].rec, qLast.rec)
        /\ qProm[qLast.ret].url = RepoFullUrl(qLast.rec)

\* C40: every dispatch started on a handle eventually settles, provided the
\* timer of its timeout eventually fires, even when an option-mutation
\* stage, the network call or the reading of the response body never
\* completes.
C40_EveryDispatchSettles ==
    \A d \in DispatchIds : (d \in Pending) ~> Settled(d)

====
